---- MODULE Spec2Model ----
(***************************************************************************)
(* Xoom spatial core: BSP construction (core/bsp.py, utils/math_utils.py), *)
(* the angular visibility solver (core/visibility.py), the swept-circle    *)
(* collision detector (core/collision.py) and the movement of the player   *)
(* (core/game.py).                                                         *)
(*                                                                         *)
(* Coordinates are exact rationals <<n, d>> (d > 0, lowest terms); the     *)
(* Python floats are read as the reals they stand for.  Angles are held    *)
(* in degrees (math.radians is a change of unit).                          *)
(***************************************************************************)
EXTENDS Integers, Sequences, FiniteSets, TLC

(***************************************************************************)
(* Bounds of the model                                                     *)
(***************************************************************************)
MaxSegs == 2
MaxDepthBound == 1
MaxFrames == 1

(***************************************************************************)
(* Exact rational arithmetic                                               *)
(***************************************************************************)
\* TLC evaluates operator arguments and LET definitions by need, once per
\* use; the binders hand F values that are evaluated exactly once.
Bind1(v, F(_)) == CHOOSE r \in {F(x) : x \in {v}} : TRUE
Bind2(p, q, F(_, _)) == CHOOSE r \in {F(a, b) : a \in {p}, b \in {q}} : TRUE
Bind3(p, q, u, F(_, _, _)) ==
    CHOOSE r \in {F(a, b, c) : a \in {p}, b \in {q}, c \in {u}} : TRUE

Abs(n) == IF n < 0 THEN -n ELSE n

RECURSIVE GCD(_, _)
GCD(a, b) == IF b = 0 THEN a ELSE Bind1(a % b, LAMBDA r : GCD(b, r))

Norm(n, d) ==
    Bind2(IF d < 0 THEN -1 ELSE 1, GCD(Abs(n), Abs(d)),
          LAMBDA s, g : <<(s * n) \div g, (s * d) \div g>>)

R(n) == <<n, 1>>

RAdd(p, q) == Bind2(p, q, LAMBDA a, b : Norm(a[1] * b[2] + b[1] * a[2], a[2] * b[2]))
RSub(p, q) == Bind2(p, q, LAMBDA a, b : Norm(a[1] * b[2] - b[1] * a[2], a[2] * b[2]))
RMul(p, q) == Bind2(p, q, LAMBDA a, b : Norm(a[1] * b[1], a[2] * b[2]))
RDiv(p, q) == Bind2(p, q, LAMBDA a, b : Norm(a[1] * b[2], a[2] * b[1]))
RNeg(p) == <<-p[1], p[2]>>
RLt(p, q) == Bind2(p, q, LAMBDA a, b : a[1] * b[2] < b[1] * a[2])
RLe(p, q) == Bind2(p, q, LAMBDA a, b : a[1] * b[2] <= b[1] * a[2])
RMin(p, q) == Bind2(p, q, LAMBDA a, b : IF RLe(a, b) THEN a ELSE b)
RMax(p, q) == Bind2(p, q, LAMBDA a, b : IF RLe(a, b) THEN b ELSE a)
RZero == <<0, 1>>
ROne == <<1, 1>>
RIsZero(p) == p[1] = 0
RPos(p) == p[1] > 0
RNegative(p) == p[1] < 0

\* A Python list-or-None value.
PyList(items) == [isNone |-> FALSE, items |-> items]
PyNone == [isNone |-> TRUE, items |-> <<>>]
Truthy(v) == ~v.isNone /\ v.items # <<>>

(***************************************************************************)
(* core/_types.py: Vec2 and Segment                                        *)
(***************************************************************************)
Vec2(x, y) == [x |-> x, y |-> y]
Pt(x, y) == Vec2(R(x), R(y))

\* original_segment holds the identity of the referenced object: i in
\* 1..Len(segs) is the i-th segment given to build; NotInput is an object
\* created later (a split piece or a copy that refers to such a piece).
NotInput == 0

\* Segment(a, b, interior_facing) with every other field at its default
\* (height None is the empty sequence, a height h is <<h>>); __post_init__
\* makes original_segment refer to the new object itself.
NewSegment(a, b, interior_facing) ==
    [a |-> a, b |-> b, interior_facing |-> interior_facing,
     u_offset |-> [c |-> RZero, k |-> RZero], texture_name |-> "None",
     height |-> <<>>, original_segment |-> NotInput,
     polygon_name |-> "None",
     blocks_collision |-> TRUE, wall_type |-> "solid",
     portal_sections |-> PyNone]

\* A replace that rebuilds the segment from its first fields only: the
\* fields declared after original_segment fall back to their defaults.
ReplaceFirstFields(s, a, b) ==
    [NewSegment(a, b, s.interior_facing)
       EXCEPT !.u_offset = s.u_offset, !.texture_name = s.texture_name,
              !.height = s.height, !.original_segment = s.original_segment]

\* Segment.replace(a=..., b=...): dataclasses.replace copies every other
\* field, original_segment included.
Replace(s, a, b) == [s EXCEPT !.a = a, !.b = b]

(***************************************************************************)
(* utils/math_utils.py                                                     *)
(***************************************************************************)
line_side(p, a, b) ==
    RSub(RMul(RSub(b.x, a.x), RSub(p.y, a.y)),
         RMul(RSub(b.y, a.y), RSub(p.x, a.x)))

\* denom, and the crossing point inter = (ix, iy), of split_segment.
SplitDenom(seg, a, b) ==
    RSub(RMul(RSub(seg.b.x, seg.a.x), RSub(b.y, a.y)),
         RMul(RSub(seg.b.y, seg.a.y), RSub(b.x, a.x)))

SplitPoint(seg, a, b, denom) ==
    Bind1(RDiv(RSub(RMul(RSub(a.x, seg.a.x), RSub(b.y, a.y)),
                    RMul(RSub(a.y, seg.a.y), RSub(b.x, a.x))),
               denom),
          LAMBDA t : Vec2(RAdd(seg.a.x, RMul(t, RSub(seg.b.x, seg.a.x))),
                          RAdd(seg.a.y, RMul(t, RSub(seg.b.y, seg.a.y)))))

\* Variants of split_segment with a slip in the crossing case: the back
\* piece is not returned / the two pieces are handed back swapped.
split_segment_lossy(seg, a, b) ==
    Bind3(line_side(seg.a, a, b), line_side(seg.b, a, b), SplitDenom(seg, a, b),
      LAMBDA from_point, to_point, denom :
        IF ~RNegative(from_point) /\ ~RNegative(to_point)
        THEN [front |-> PyList(<<seg>>), back |-> PyList(<<>>)]
        ELSE IF ~RPos(from_point) /\ ~RPos(to_point)
        THEN [front |-> PyList(<<>>), back |-> PyList(<<seg>>)]
        ELSE IF RIsZero(denom)
        THEN [front |-> PyList(<<seg>>), back |-> PyList(<<>>)]
        ELSE Bind1(SplitPoint(seg, a, b, denom), LAMBDA inter :
          IF RPos(from_point)
          THEN [front |-> PyList(<<NewSegment(seg.a, inter, seg.interior_facing)>>),
                back |-> PyList(<<>>)]
          ELSE [front |-> PyList(<<NewSegment(inter, seg.b, seg.interior_facing)>>),
                back |-> PyList(<<>>)]))

split_segment_swapped(seg, a, b) ==
    Bind3(line_side(seg.a, a, b), line_side(seg.b, a, b), SplitDenom(seg, a, b),
      LAMBDA from_point, to_point, denom :
        IF ~RNegative(from_point) /\ ~RNegative(to_point)
        THEN [front |-> PyList(<<seg>>), back |-> PyList(<<>>)]
        ELSE IF ~RPos(from_point) /\ ~RPos(to_point)
        THEN [front |-> PyList(<<>>), back |-> PyList(<<seg>>)]
        ELSE IF RIsZero(denom)
        THEN [front |-> PyList(<<seg>>), back |-> PyList(<<>>)]
        ELSE Bind1(SplitPoint(seg, a, b, denom), LAMBDA inter :
          Bind2(NewSegment(seg.a, inter, seg.interior_facing),
                NewSegment(inter, seg.b, seg.interior_facing),
            LAMBDA front_seg, back_seg :
              IF RPos(from_point)
              THEN [front |-> PyList(<<back_seg>>), back |-> PyList(<<front_seg>>)]
              ELSE [front |-> PyList(<<front_seg>>), back |-> PyList(<<back_seg>>)])))

split_segment(seg, a, b) ==
    Bind3(line_side(seg.a, a, b), line_side(seg.b, a, b), SplitDenom(seg, a, b),
      LAMBDA from_point, to_point, denom :
        IF ~RNegative(from_point) /\ ~RNegative(to_point)
        THEN [front |-> PyList(<<seg>>), back |-> PyList(<<>>)]
        ELSE IF ~RPos(from_point) /\ ~RPos(to_point)
        THEN [front |-> PyList(<<>>), back |-> PyList(<<seg>>)]
        ELSE IF RIsZero(denom)
        THEN [front |-> PyList(<<seg>>), back |-> PyList(<<>>)]
        ELSE Bind1(SplitPoint(seg, a, b, denom), LAMBDA inter :
          Bind2(NewSegment(seg.a, inter, seg.interior_facing),
                NewSegment(inter, seg.b, seg.interior_facing),
            LAMBDA front_seg, back_seg :
              IF RPos(from_point)
              THEN [front |-> PyList(<<front_seg>>), back |-> PyList(<<back_seg>>)]
              ELSE [front |-> PyList(<<back_seg>>), back |-> PyList(<<front_seg>>)])))

(***************************************************************************)
(* The walls a map can be made of, and the lists build is given            *)
(***************************************************************************)
Wall(ax, ay, bx, by, facing, u, tex) ==
    [a |-> Pt(ax, ay), b |-> Pt(bx, by), interior_facing |-> facing,
     u_offset |-> [c |-> R(u), k |-> RZero], texture_name |-> tex,
     height |-> <<>>, original_segment |-> NotInput,
     polygon_name |-> "None",
     blocks_collision |-> TRUE, wall_type |-> "solid",
     portal_sections |-> PyNone]

\* The wall the map loader makes of an edge of a sector: height is
\* ceil_h - floor_h and polygon_name the name of the sector.
sector_wall(w, sector, h) ==
    [w EXCEPT !.height = <<R(h)>>, !.polygon_name = sector]

\* The wall the map loader puts between two sectors: a Segment built with
\* interior_facing=False, wall_type="portal" and blocks_collision=False,
\* the name of the two sectors and the list of its sections.
portal_segment(w) ==
    [w EXCEPT !.interior_facing = "False", !.wall_type = "portal",
              !.blocks_collision = FALSE, !.height = <<R(3)>>,
              !.polygon_name = "A_to_B_portal",
              !.portal_sections = PyList(<<"top", "middle">>)]

WallPool ==
    << Wall(2, 0, 1, 1, "True", 0, "brick"),
       Wall(1, 1, 0, 2, "True", 2, "brick"),
       sector_wall(Wall(6, 0, 0, 2, "True", 0, "stone"), "hall", 4),
       Wall(1, 1, 3, 3, "False", 0, "None"),
       portal_segment(Wall(0, 3, 3, 0, "False", 1, "stone")),
       sector_wall(Wall(0, 6, 6, 0, "True", 0, "wood"), "yard", 2) >>

\* Lists of at most MaxSegs distinct walls, in any order.  Each is a fresh
\* Segment whose original_segment is itself (Segment.__post_init__).
InputLists ==
    LET idx == UNION {[1..n -> 1..Len(WallPool)] : n \in 0..MaxSegs}
        inj == {f \in idx : \A i, j \in DOMAIN f : f[i] = f[j] => i = j}
    IN  {[i \in DOMAIN f |-> [WallPool[f[i]] EXCEPT !.original_segment = i]] : f \in inj}

\* The walls of the maps the collision detector is exercised on: a Segment
\* built with its defaults (interior_facing None), axis-aligned so that
\* math.hypot of a wall is rational; one portal and one zero-length wall.
SweepPool ==
    << Wall(0, 0, 10, 0, "None", 0, "None"),
       portal_segment(Wall(0, 4, 10, 4, "None", 0, "None")),
       Wall(12, -1, 16, -1, "None", 0, "None"),
       Wall(10, 0, 10, -6, "None", 0, "None"),
       Wall(3, 3, 3, 3, "None", 0, "None") >>

SweepLists ==
    LET idx == UNION {[1..n -> 1..Len(SweepPool)] : n \in 0..MaxSegs}
        inj == {f \in idx : \A i, j \in DOMAIN f : f[i] = f[j] => i = j}
    IN  {[i \in DOMAIN f |-> [SweepPool[f[i]] EXCEPT !.original_segment = i]] : f \in inj}

(***************************************************************************)
(* State                                                                   *)
(***************************************************************************)
VARIABLES
    segs,        \* the list given to BSPBuilder.build
    max_depth,   \* BSPBuilder.max_depth
    strategy,    \* BSPBuilder.strategy
    pc,          \* "idle", "building", "built", "failed"
    calls,       \* pending _build_recursive calls, innermost first
    tree,        \* path from the root |-> BSPNode
    raised,      \* the exception build has raised, or "none"
    query,       \* <<>> or <<[player, clip]>>: the last compute_visible_segments call
    ordered,     \* its local list "ordered" (the BSP walk)
    visible,     \* the list it returned
    covered,     \* its local list "covered" when it returned
    emitted,     \* per appended fragment: position in ordered of its segment,
                 \* and the interval (ia, ib) appended to covered
    sweep,       \* <<>> or <<[start, end, radius]>>: the last find_first_collision call
    contact,     \* the value it returned: <<>> for None, <<pt>> for a point
    last_collided_segment,  \* CollisionDetector.last_collided_segment: <<>> or <<seg>>
    game_player_pos,  \* self.player.pos of the game
    frame,       \* the movement frames handled so far: [start, dx, dy] each
    thread,      \* per caller of the detector: where its call is, its locals
                 \* and what it was returned and read
    subtracted   \* <<>> or <<[interval, covered, result]>>: the last
                 \* _subtract_intervals call made on its own

bspVars == <<segs, max_depth, strategy, pc, calls, tree, raised>>
visVars == <<query, ordered, visible, covered, emitted>>
colVars == <<sweep, contact, last_collided_segment, game_player_pos, frame>>
auxVars == <<thread, subtracted>>
vars == <<segs, max_depth, strategy, pc, calls, tree, raised,
          query, ordered, visible, covered, emitted,
          sweep, contact, last_collided_segment, game_player_pos, frame,
          thread, subtracted>>

(***************************************************************************)
(* core/bsp.py                                                             *)
(***************************************************************************)
\* BSPNode(): partition None (an empty sequence), no coplanar segments.
\* node.front / node.back exist when the path extended by "front" / "back"
\* is in the domain of tree.
EmptyNode == [partition |-> <<>>, coplanar |-> <<>>]

HasFront(t, p) == Append(p, "front") \in DOMAIN t
HasBack(t, p) == Append(p, "back") \in DOMAIN t
is_leaf(t, p) == t[p].partition = <<>> /\ ~HasFront(t, p) /\ ~HasBack(t, p)

\* The guard at the head of _build_recursive.
BuildGuardNoDepth(list, depth) == list = <<>>

\* The guard that stops one level early.
BuildGuardOneEarly(list, depth) == depth >= max_depth \/ list = <<>>

BuildGuardNoEmpty(list, depth) == depth > max_depth

BuildGuard(list, depth) == depth > max_depth \/ list = <<>>

\* The indices _choose_partition may return for a non-empty list.
choose_partition(list) ==
    IF strategy = "random" THEN 1..Len(list) ELSE {1}

\* s.replace(a=part.a, b=part.b): what the loop stores for a part that
\* split_segment returned for s.
AsStoredPiece(s, part) == part

AsStored(s, part) == Replace(s, part.a, part.b)

\* The parts of one list that split_segment returned for s, as stored:
\* "if parts: for part in parts: list.append(s.replace(a=part.a, b=part.b))".
StoredParts(s, parts) ==
    IF Truthy(parts)
    THEN [i \in 1..Len(parts.items) |-> AsStored(s, parts.items[i])]
    ELSE <<>>

\* The body of the classification loop of _build_recursive for one s;
\* is_partition is the test "s is partition".
ClassifyOne(acc, s, partition, is_partition) ==
    IF is_partition
    THEN [acc EXCEPT !.coplanar = Append(@, Replace(s, s.a, s.b))]
    ELSE Bind1(split_segment(s, partition.a, partition.b), LAMBDA parts :
           IF parts.front.isNone /\ parts.back.isNone
           THEN [acc EXCEPT !.coplanar = Append(@, Replace(s, s.a, s.b))]
           ELSE [acc EXCEPT !.front_list = @ \o StoredParts(s, parts.front),
                            !.back_list = @ \o StoredParts(s, parts.back)])

\* The classification loop; pidx is the position of the object chosen as
\* partition.
RECURSIVE Classify(_, _, _, _)
Classify(list, pidx, k, acc) ==
    IF k > Len(list) THEN acc
    ELSE Bind1(ClassifyOne(acc, list[k], list[pidx], k = pidx),
               LAMBDA acc2 : Classify(list, pidx, k + 1, acc2))

ClassifyAll(list, pidx) ==
    Classify(list, pidx, 1, [coplanar |-> <<>>, front_list |-> <<>>, back_list |-> <<>>])

\* "if front_list: node.front = self._build_recursive(front_list, depth + 1)"
\* (and the same for back): the call to make, if any.
ChildCall(c, side, list) ==
    IF list # <<>>
    THEN <<[path |-> Append(c.path, side), list |-> list, depth |-> c.depth + 1]>>
    ELSE <<>>

\* BSPBuilder.build: the call _build_recursive(list(segs), depth=0).
Build ==
    /\ pc = "idle"
    /\ pc' = "building"
    /\ calls' = <<[path |-> <<>>, list |-> segs, depth |-> 0]>>
    /\ UNCHANGED <<segs, max_depth, strategy, tree, raised>>
    /\ UNCHANGED visVars
    /\ UNCHANGED colVars
    /\ UNCHANGED auxVars

\* One activation of _build_recursive: the innermost pending call.
BuildRecursive ==
    /\ pc = "building"
    /\ calls # <<>>
    /\ \E c \in {Head(calls)} :
       IF BuildGuard(c.list, c.depth)
       THEN /\ tree' = [p \in DOMAIN tree \cup {c.path} |->
                          IF p = c.path THEN EmptyNode ELSE tree[p]]
            /\ calls' = Tail(calls)
            /\ pc' = IF Tail(calls) = <<>> THEN "built" ELSE "building"
            /\ raised' = raised
       ELSE IF c.list = <<>>
       THEN \* _choose_partition raises BSPBuildError
            /\ raised' = "BSPBuildError"
            /\ pc' = "failed"
            /\ calls' = <<>>
            /\ tree' = tree
       ELSE \E pidx \in choose_partition(c.list) :
            \E r \in {ClassifyAll(c.list, pidx)} :
            \E rest \in {ChildCall(c, "front", r.front_list)
                           \o ChildCall(c, "back", r.back_list) \o Tail(calls)} :
                /\ tree' = [p \in DOMAIN tree \cup {c.path} |->
                              IF p = c.path
                              THEN [partition |-> <<c.list[pidx]>>, coplanar |-> r.coplanar]
                              ELSE tree[p]]
                /\ calls' = rest
                /\ pc' = IF rest = <<>> THEN "built" ELSE "building"
                /\ raised' = raised
    /\ UNCHANGED <<segs, max_depth, strategy>>
    /\ UNCHANGED visVars
    /\ UNCHANGED colVars
    /\ UNCHANGED auxVars

(***************************************************************************)
(* The viewer (the Player object handed to the solver)                     *)
(***************************************************************************)
\* VisibilityManager.fov_margin_deg
fov_margin_deg == 10

\* The epsilon of _merge_intervals, 1e-5 rad, in millionths of a degree.
MergeEpsilonMicroDeg == 573

Player(x, y, angle_deg, fov_deg, fov_length) ==
    [pos |-> Pt(x, y), angle_deg |-> angle_deg, fov_deg |-> fov_deg,
     fov_length |-> fov_length]

\* Viewers whose FOV triangle has rational corners: the facing direction is
\* a diagonal and fov_deg + fov_margin_deg is a right angle.
Viewers == { Player(0, 0, 45, 80, 8), Player(4, 4, 225, 80, 8) }

\* cos and sin at whole multiples of 90 degrees.
CosDeg(d) == CASE d % 360 = 0 -> 1 [] d % 360 = 180 -> -1 [] OTHER -> 0
SinDeg(d) == CASE d % 360 = 90 -> 1 [] d % 360 = 270 -> -1 [] OTHER -> 0

\* math.atan2(dy, dx) in degrees: exact on the axes and the diagonals (the
\* only directions the scenes of this model give it), and the octant-wise
\* linear interpolation between those values elsewhere.  AtanUpper is the
\* upper half plane, y >= 0.
AtanUpper(y, x) ==
    IF RIsZero(y) THEN (IF RNegative(x) THEN R(180) ELSE RZero)
    ELSE IF RPos(x)
    THEN (IF RLe(y, x) THEN RMul(R(45), RDiv(y, x))
          ELSE RSub(R(90), RMul(R(45), RDiv(x, y))))
    ELSE (IF RLe(RNeg(x), y) THEN RAdd(R(90), RMul(R(45), RDiv(RNeg(x), y)))
          ELSE RSub(R(180), RMul(R(45), RDiv(y, RNeg(x)))))

Atan2(dy, dx) ==
    Bind2(dy, dx, LAMBDA y, x :
      IF RNegative(y) THEN RNeg(AtanUpper(RNeg(y), x)) ELSE AtanUpper(y, x))

(***************************************************************************)
(* core/visibility.py                                                      *)
(***************************************************************************)
RECURSIVE angle_diff_norm(_)
angle_diff_norm(d) ==
    Bind1(d, LAMBDA v :
      IF RLt(R(180), v) THEN angle_diff_norm(RSub(v, R(360)))
      ELSE IF RLt(v, R(-180)) THEN angle_diff_norm(RAdd(v, R(360)))
      ELSE v)

angle_diff(a, b) == angle_diff_norm(RSub(a, b))

lerp_vec2(a, b, t) ==
    Bind1(t, LAMBDA tt :
      Vec2(RAdd(a.x, RMul(RSub(b.x, a.x), tt)), RAdd(a.y, RMul(RSub(b.y, a.y), tt))))

\* The object seg.original_segment refers to.
Original(s) ==
    IF s.original_segment = NotInput THEN s ELSE segs[s.original_segment]

\* The interpolation that measures t from a for every wall.
interpolate_u_offset_from_a(original, p) ==
    Bind2(RSub(original.b.x, original.a.x), RSub(original.b.y, original.a.y),
      LAMBDA dx, dy :
        Bind1(RAdd(RMul(dx, dx), RMul(dy, dy)), LAMBDA len2 :
          IF RIsZero(len2) THEN original.u_offset
          ELSE
            Bind1(RMax(RZero, RMin(ROne,
                    RDiv(RAdd(RMul(RSub(p.x, original.a.x), dx),
                              RMul(RSub(p.y, original.a.y), dy)), len2))),
              LAMBDA t :
                [c |-> original.u_offset.c,
                 k |-> RAdd(original.u_offset.k, t)])))

\* u_offset values are c + k * L, L the length (math.hypot) of the segment
\* that original_segment refers to.
interpolate_u_offset(original, p) ==
    Bind2(RSub(original.b.x, original.a.x), RSub(original.b.y, original.a.y),
      LAMBDA dx, dy :
        Bind1(RAdd(RMul(dx, dx), RMul(dy, dy)), LAMBDA len2 :
          IF RIsZero(len2) THEN original.u_offset
          ELSE
            Bind1(RMax(RZero, RMin(ROne,
                    RDiv(RAdd(RMul(RSub(p.x, original.a.x), dx),
                              RMul(RSub(p.y, original.a.y), dy)), len2))),
              LAMBDA t :
                [c |-> original.u_offset.c,
                 k |-> RAdd(original.u_offset.k,
                            IF original.interior_facing # "True"
                            THEN RSub(ROne, t) ELSE t)])))

\* The filter without the side test: every segment that has a facing flag.
is_segment_facing_player_any_side(seg, player_pos) ==
    seg.interior_facing \in {"True", "False"}

is_segment_facing_player(seg, player_pos) ==
    LET wall_dx == RSub(seg.b.x, seg.a.x)
        wall_dy == RSub(seg.b.y, seg.a.y)
        normal_x == RNeg(wall_dy)
        normal_y == wall_dx
        mid_x == RDiv(RAdd(seg.a.x, seg.b.x), R(2))
        mid_y == RDiv(RAdd(seg.a.y, seg.b.y), R(2))
    IN  Bind1(RAdd(RMul(normal_x, RSub(player_pos.x, mid_x)),
                   RMul(normal_y, RSub(player_pos.y, mid_y))),
          LAMBDA dot :
            \/ RPos(dot) /\ seg.interior_facing = "True"
            \/ ~RPos(dot) /\ seg.interior_facing = "False")

segment_intersection(p1, p2, q1, q2) ==
    Bind2(RSub(p2.x, p1.x), RSub(p2.y, p1.y), LAMBDA dx1, dy1 :
      Bind2(RSub(q2.x, q1.x), RSub(q2.y, q1.y), LAMBDA dx2, dy2 :
        Bind1(RSub(RMul(dx1, dy2), RMul(dy1, dx2)), LAMBDA denom :
          IF RIsZero(denom) THEN p1
          ELSE
            Bind1(RDiv(RSub(RMul(RSub(q1.x, p1.x), dy2),
                            RMul(RSub(q1.y, p1.y), dx2)), denom),
              LAMBDA t : Vec2(RAdd(p1.x, RMul(t, dx1)), RAdd(p1.y, RMul(t, dy1)))))))

\* The body of the loop of _clip_poly_against_edge for curr = poly[i] and
\* prev = poly[i - 1] (the last point for the first).
ClipPolyStep(out, prev, curr, a, b) ==
    Bind2(~RNegative(line_side(curr, a, b)), ~RNegative(line_side(prev, a, b)),
      LAMBDA incurr, inprev :
        IF incurr
        THEN (IF ~inprev
              THEN Append(Append(out, segment_intersection(prev, curr, a, b)), curr)
              ELSE Append(out, curr))
        ELSE IF inprev
        THEN Append(out, segment_intersection(prev, curr, a, b))
        ELSE out)

RECURSIVE ClipPolyLoop(_, _, _, _, _)
ClipPolyLoop(poly, a, b, i, out) ==
    IF i > Len(poly) THEN out
    ELSE Bind1(ClipPolyStep(out, IF i = 1 THEN poly[Len(poly)] ELSE poly[i - 1],
                            poly[i], a, b),
               LAMBDA out2 : ClipPolyLoop(poly, a, b, i + 1, out2))

clip_poly_against_edge(poly, a, b) ==
    Bind1(poly, LAMBDA pts : ClipPolyLoop(pts, a, b, 1, <<>>))

\* A clip that lets the whole segment through.
clip_segment_to_triangle_multi_noclip(seg, tri) == <<seg>>

clip_segment_to_triangle_multi(seg, tri) ==
    Bind1(clip_poly_against_edge(<<seg.a, seg.b>>, tri[1], tri[2]), LAMBDA poly1 :
      IF Len(poly1) < 2 THEN <<>>
      ELSE Bind1(clip_poly_against_edge(poly1, tri[2], tri[3]), LAMBDA poly2 :
        IF Len(poly2) < 2 THEN <<>>
        ELSE Bind1(clip_poly_against_edge(poly2, tri[3], tri[1]), LAMBDA poly3 :
          IF Len(poly3) < 2 THEN <<>>
          ELSE IF Len(poly3) = 2 THEN <<Replace(seg, poly3[1], poly3[2])>>
          ELSE IF Len(poly3) = 3
          THEN <<Replace(seg, poly3[1], poly3[2]), Replace(seg, poly3[2], poly3[3])>>
          ELSE [i \in 1..(Len(poly3) - 1) |-> Replace(seg, poly3[i], poly3[i + 1])])))

\* sorted() on (start, end) tuples.
TupleLe(p, q) == RLt(p[1], q[1]) \/ (p[1] = q[1] /\ RLe(p[2], q[2]))

RECURSIVE InsertSorted(_, _)
InsertSorted(x, list) ==
    IF list = <<>> THEN <<x>>
    ELSE IF TupleLe(x, Head(list)) THEN <<x>> \o list
    ELSE <<Head(list)>> \o InsertSorted(x, Tail(list))

RECURSIVE sorted(_)
sorted(list) ==
    IF list = <<>> THEN <<>>
    ELSE Bind1(sorted(Tail(list)), LAMBDA rest : InsertSorted(Head(list), rest))

\* The loop of _subtract_intervals over cs = sorted(covered); it ends with
\* the value of curr and the list result.
RECURSIVE SubtractLoop(_, _, _, _, _)
SubtractLoop(cs, k, curr, end, result) ==
    IF k > Len(cs) THEN [curr |-> curr, result |-> result]
    ELSE IF RLe(cs[k][2], curr) THEN SubtractLoop(cs, k + 1, curr, end, result)
    ELSE IF RLt(end, cs[k][1]) THEN [curr |-> curr, result |-> result]
    ELSE Bind2(IF RLt(curr, cs[k][1])
               THEN Append(result, <<curr, RMin(cs[k][1], end)>>)
               ELSE result,
               RMax(curr, cs[k][2]),
           LAMBDA result2, curr2 :
             IF RLe(end, curr2) THEN [curr |-> curr2, result |-> result2]
             ELSE SubtractLoop(cs, k + 1, curr2, end, result2))

\* The subtraction made on covered as given, without sorting it.
subtract_intervals_unsorted(interval, cov) ==
    Bind1(SubtractLoop(cov, 1, interval[1], interval[2], <<>>), LAMBDA r :
      IF RLt(r.curr, interval[2]) THEN Append(r.result, <<r.curr, interval[2]>>)
      ELSE r.result)

subtract_intervals(interval, cov) ==
    Bind1(sorted(cov), LAMBDA cs :
      Bind1(SubtractLoop(cs, 1, interval[1], interval[2], <<>>), LAMBDA r :
        IF RLt(r.curr, interval[2]) THEN Append(r.result, <<r.curr, interval[2]>>)
        ELSE r.result))

\* The body of the loop of _merge_intervals for the interval (s, e).
MergeStep(merged, s, e) ==
    Bind1(merged[Len(merged)], LAMBDA last :
      IF RLe(s, RAdd(last[2], <<MergeEpsilonMicroDeg, 1000000>>))
      THEN [merged EXCEPT ![Len(merged)] = <<last[1], RMax(last[2], e)>>]
      ELSE Append(merged, <<s, e>>))

RECURSIVE MergeLoop(_, _, _)
MergeLoop(list, k, merged) ==
    IF k > Len(list) THEN merged
    ELSE Bind1(MergeStep(merged, list[k][1], list[k][2]),
               LAMBDA merged2 : MergeLoop(list, k + 1, merged2))

\* The merge made on the list as appended, without sorting it first.
merge_intervals_unsorted(intervals) ==
    Bind1(intervals, LAMBDA ivs :
      IF ivs = <<>> THEN <<>>
      ELSE MergeLoop(ivs, 2, <<ivs[1]>>))

merge_intervals(intervals) ==
    Bind1(intervals, LAMBDA ivs :
      IF ivs = <<>> THEN <<>>
      ELSE Bind1(sorted(ivs), LAMBDA srt : MergeLoop(srt, 2, <<srt[1]>>)))

\* near and far of _collect_bsp_order: the child names on the viewer's side
\* of the partition of node p and on the other side.
NearFar(t, p, pos) ==
    Bind1(line_side(pos, t[p].partition[1].a, t[p].partition[1].b), LAMBDA side :
      [near |-> IF ~RNegative(side) THEN "front" ELSE "back",
       far |-> IF ~RNegative(side) THEN "back" ELSE "front"])

\* The walk with the far subtree visited before the near one.
RECURSIVE collect_bsp_order_far_first(_, _, _)
collect_bsp_order_far_first(t, p, pos) ==
    IF p \notin DOMAIN t THEN <<>>
    ELSE IF t[p].partition = <<>> THEN <<>>
    ELSE Bind1(NearFar(t, p, pos), LAMBDA nf :
           collect_bsp_order_far_first(t, Append(p, nf.far), pos)
             \o t[p].coplanar
             \o collect_bsp_order_far_first(t, Append(p, nf.near), pos))

RECURSIVE collect_bsp_order(_, _, _)
collect_bsp_order(t, p, pos) ==
    IF p \notin DOMAIN t THEN <<>>
    ELSE IF t[p].partition = <<>> THEN <<>>
    ELSE Bind1(NearFar(t, p, pos), LAMBDA nf :
           collect_bsp_order(t, Append(p, nf.near), pos)
             \o t[p].coplanar
             \o collect_bsp_order(t, Append(p, nf.far), pos))

\* The fragment cut at the middle of the piece, whatever the interval is.
FragmentToMiddle(seg, clipped, a0, a1, ia, ib) ==
    Bind2(clipped.a, lerp_vec2(clipped.a, clipped.b, Norm(1, 2)),
      LAMBDA p0, p1 :
        [a |-> p0, b |-> p1, interior_facing |-> clipped.interior_facing,
         u_offset |-> interpolate_u_offset(Original(seg), p0),
         texture_name |-> Original(seg).texture_name,
         height |-> Original(seg).height,
         original_segment |-> seg.original_segment,
         polygon_name |-> Original(seg).polygon_name])

\* The fragment appended to visible for the residual interval (ia, ib) of
\* the piece "clipped" of the tree segment seg.
Fragment(seg, clipped, a0, a1, ia, ib) ==
    Bind2(lerp_vec2(clipped.a, clipped.b,
                    IF a1 # a0 THEN RDiv(RSub(ia, a0), RSub(a1, a0)) ELSE RZero),
          lerp_vec2(clipped.a, clipped.b,
                    IF a1 # a0 THEN RDiv(RSub(ib, a0), RSub(a1, a0)) ELSE ROne),
      LAMBDA p0, p1 :
        [a |-> p0, b |-> p1, interior_facing |-> clipped.interior_facing,
         u_offset |-> interpolate_u_offset(Original(seg), p0),
         texture_name |-> Original(seg).texture_name,
         height |-> Original(seg).height,
         original_segment |-> seg.original_segment,
         polygon_name |-> Original(seg).polygon_name])

\* The tail of the body of "for clipped in clipped_list": the fragments of
\* the residual intervals; st carries visible, covered and emitted.
EmitIntervals(st, seg, k, clipped, a0, a1, intervals) ==
    IF intervals = <<>> THEN st
    ELSE [visible |-> st.visible \o
             [i \in 1..Len(intervals) |->
                 Fragment(seg, clipped, a0, a1, intervals[i][1], intervals[i][2])],
          covered |-> merge_intervals(st.covered \o intervals),
          emitted |-> st.emitted \o
             [i \in 1..Len(intervals) |->
                 [k |-> k, ia |-> intervals[i][1], ib |-> intervals[i][2]]]]

\* The angular interval of a clipped piece: a0, a1 and the clamped
\* (seg_start, seg_end).
AngularInterval(clipped, player, half) ==
    Bind2(angle_diff(Atan2(RSub(clipped.a.y, player.pos.y),
                           RSub(clipped.a.x, player.pos.x)), R(player.angle_deg)),
          angle_diff(Atan2(RSub(clipped.b.y, player.pos.y),
                           RSub(clipped.b.x, player.pos.x)), R(player.angle_deg)),
      LAMBDA a0, a1 :
        [a0 |-> a0, a1 |-> a1,
         seg_start |-> RMax(RMin(a0, a1), RSub(RNeg(half), R(fov_margin_deg))),
         seg_end |-> RMin(RMax(a0, a1), RAdd(half, R(fov_margin_deg)))])

\* The body of "for clipped in clipped_list" for one piece.
ProcessInterval(st, seg, k, clipped, iv) ==
    IF RLe(iv.seg_end, iv.seg_start) THEN st
    ELSE Bind1(subtract_intervals(<<iv.seg_start, iv.seg_end>>, st.covered),
               LAMBDA intervals :
                 EmitIntervals(st, seg, k, clipped, iv.a0, iv.a1, intervals))

ProcessClipped(st, seg, k, clipped, player, half) ==
    Bind1(AngularInterval(clipped, player, half),
          LAMBDA iv : ProcessInterval(st, seg, k, clipped, iv))

RECURSIVE ClippedLoop(_, _, _, _, _, _, _)
ClippedLoop(st, seg, k, clipped_list, j, player, half) ==
    IF j > Len(clipped_list) THEN st
    ELSE Bind1(ProcessClipped(st, seg, k, clipped_list[j], player, half),
               LAMBDA st2 : ClippedLoop(st2, seg, k, clipped_list, j + 1, player, half))

FovTriangle(player, half, max_dist) ==
    LET pos == player.pos
        lo == player.angle_deg - half[1]
        hi == player.angle_deg + half[1]
    IN  << pos,
           Vec2(RAdd(pos.x, R(CosDeg(lo) * max_dist)), RAdd(pos.y, R(SinDeg(lo) * max_dist))),
           Vec2(RAdd(pos.x, R(CosDeg(hi) * max_dist)), RAdd(pos.y, R(SinDeg(hi) * max_dist))) >>

\* The body of "for seg in ordered" of the clipping branch for seg = ord[k].
ClipStep(st, seg, k, player, half, tri) ==
    IF ~is_segment_facing_player(seg, player.pos) THEN st
    ELSE Bind1(clip_segment_to_triangle_multi(seg, tri), LAMBDA clipped_list :
           ClippedLoop(st, seg, k, clipped_list, 1, player, half))

RECURSIVE ClipLoop(_, _, _, _, _, _)
ClipLoop(st, ord, k, player, half, tri) ==
    IF k > Len(ord) THEN st
    ELSE Bind1(ClipStep(st, ord[k], k, player, half, tri),
               LAMBDA st2 : ClipLoop(st2, ord, k + 1, player, half, tri))

\* The test of the branch "if not clip": facing the viewer and not both
\* endpoints farther than max_dist.
NoClipKeeps(seg, pos, max_d2) ==
    IF ~is_segment_facing_player(seg, pos) THEN FALSE
    ELSE ~( /\ RLt(max_d2, RAdd(RMul(RSub(seg.a.x, pos.x), RSub(seg.a.x, pos.x)),
                                RMul(RSub(seg.a.y, pos.y), RSub(seg.a.y, pos.y))))
            /\ RLt(max_d2, RAdd(RMul(RSub(seg.b.x, pos.x), RSub(seg.b.x, pos.x)),
                                RMul(RSub(seg.b.y, pos.y), RSub(seg.b.y, pos.y)))) )

\* The loop of the branch "if not clip".
RECURSIVE NoClipLoop(_, _, _, _, _)
NoClipLoop(out, ord, k, pos, max_d2) ==
    IF k > Len(ord) THEN out
    ELSE Bind1(IF NoClipKeeps(ord[k], pos, max_d2) THEN Append(out, ord[k]) ELSE out,
               LAMBDA out2 : NoClipLoop(out2, ord, k + 1, pos, max_d2))

\* VisibilityManager.compute_visible_segments(root, player, clip_to_fov=clip)
\* on the built tree, with max_dist = player.fov_length: what it computes.
VisibleQuery ==
    /\ pc = "built"
    /\ \E player \in Viewers, clip \in BOOLEAN :
       \E half \in {Norm(player.fov_deg + fov_margin_deg, 2)} :
       \E ord \in {collect_bsp_order(tree, <<>>, player.pos)} :
       \E tri \in {FovTriangle(player, half, player.fov_length)} :
       \E st \in { IF clip
                   THEN ClipLoop([visible |-> <<>>, covered |-> <<>>, emitted |-> <<>>],
                                 ord, 1, player, half, tri)
                   ELSE [visible |-> NoClipLoop(<<>>, ord, 1, player.pos,
                                                R(player.fov_length * player.fov_length)),
                         covered |-> <<>>, emitted |-> <<>>] } :
         /\ query' = <<[player |-> player, clip |-> clip]>>
         /\ ordered' = ord
         /\ visible' = st.visible
         /\ covered' = st.covered
         /\ emitted' = st.emitted

\* The query with a walk that moves the coplanar segments out of the nodes
\* (out.extend(node.coplanar) followed by node.coplanar.clear()).
ComputeVisibleSegmentsDrainingWalk ==
    /\ VisibleQuery
    /\ tree' = [p \in DOMAIN tree |-> [tree[p] EXCEPT !.coplanar = <<>>]]
    /\ UNCHANGED <<segs, max_depth, strategy, pc, calls, raised>>
    /\ UNCHANGED colVars
    /\ UNCHANGED auxVars

\* The query reads the tree, the player and the class attributes only: no
\* node, list or segment of the tree is assigned to.
ComputeVisibleSegments ==
    /\ VisibleQuery
    /\ UNCHANGED bspVars
    /\ UNCHANGED colVars
    /\ UNCHANGED auxVars

(***************************************************************************)
(* core/collision.py                                                       *)
(***************************************************************************)
\* The largest k with k * k <= n, by bisection.
RECURSIVE ISqrtSearch(_, _, _)
ISqrtSearch(n, lo, hi) ==
    IF lo >= hi THEN lo
    ELSE Bind1((lo + hi + 1) \div 2, LAMBDA mid :
           IF mid * mid <= n THEN ISqrtSearch(n, mid, hi)
           ELSE ISqrtSearch(n, lo, mid - 1))

ISqrt(n) == ISqrtSearch(n, 0, IF n < 46340 THEN n ELSE 46340)

\* math.sqrt and math.hypot: exact when the radicand is the square of a
\* rational, rounded down to a multiple of 1/d otherwise.
RSqrt(q) == Bind1(q, LAMBDA v : Norm(ISqrt(v[1] * v[2]), v[2]))

\* x <= sqrt(radicand) and sqrt(radicand) <= x, decided without rounding.
LeSqrt(x, radicand) == ~RPos(x) \/ RLe(RMul(x, x), radicand)
SqrtLe(radicand, x) == ~RNegative(x) /\ RLe(radicand, RMul(x, x))

\* A Vec2-or-None value: <<>> is None, <<pt>> the point pt.
NoPoint == <<>>

DistSq(p, q) ==
    Bind2(RSub(p.x, q.x), RSub(p.y, q.y), LAMBDA ex, ey :
      RAdd(RMul(ex, ex), RMul(ey, ey)))

\* Python's min(list, key=...): the position of the first smallest key.
RECURSIVE ArgMin(_, _, _)
ArgMin(keys, i, best) ==
    IF i > Len(keys) THEN best
    ELSE ArgMin(keys, i + 1, IF RLt(keys[i], keys[best]) THEN i ELSE best)

\* The stationary variant: a circle that does not move is reported to hit
\* the point when it already covers it.
moving_circle_point_collision_static_hit(p1, p2, point, radius) ==
    IF RLe(DistSq(p1, point), RMul(radius, radius)) THEN <<p1>> ELSE NoPoint

\* t1 = (-b - sqrt(discriminant)) / (2a) and t2 = (-b + sqrt(...)) / (2a);
\* the tests 0 <= t <= 1 are decided on the radicand, the value of t uses
\* RSqrt.
moving_circle_point_collision(p1, p2, point, radius) ==
    Bind2(RSub(p2.x, p1.x), RSub(p2.y, p1.y), LAMBDA dx, dy :
    Bind2(RSub(p1.x, point.x), RSub(p1.y, point.y), LAMBDA fx, fy :
    Bind3(RAdd(RMul(dx, dx), RMul(dy, dy)),
          RMul(R(2), RAdd(RMul(fx, dx), RMul(fy, dy))),
          RSub(RAdd(RMul(fx, fx), RMul(fy, fy)), RMul(radius, radius)),
      LAMBDA a, b, c :
        Bind1(RSub(RMul(b, b), RMul(R(4), RMul(a, c))), LAMBDA discriminant :
          IF RNegative(discriminant) \/ RIsZero(a) THEN NoPoint
          ELSE Bind2(RNeg(b), RMul(R(2), a), LAMBDA nb, a2 :
                 IF SqrtLe(discriminant, nb) /\ LeSqrt(RSub(nb, a2), discriminant)
                 THEN Bind1(RDiv(RSub(nb, RSqrt(discriminant)), a2), LAMBDA t :
                        <<Vec2(RAdd(p1.x, RMul(dx, t)), RAdd(p1.y, RMul(dy, t)))>>)
                 ELSE IF LeSqrt(b, discriminant) /\ SqrtLe(discriminant, RAdd(a2, b))
                 THEN Bind1(RDiv(RAdd(nb, RSqrt(discriminant)), a2), LAMBDA t :
                        <<Vec2(RAdd(p1.x, RMul(dx, t)), RAdd(p1.y, RMul(dy, t)))>>)
                 ELSE NoPoint)))))

\* The crossing of the wall's line at distance radius, given the distances
\* dist0, dist1 of p1 and p2 along one normal: the body of
\* "if (dist0 > radius and dist1 < radius) or (dist0 < -radius and ...)".
EdgeCrossing(p1, p2, q1, q2, radius, dist0, dist1) ==
    IF ~( \/ RLt(radius, dist0) /\ RLt(dist1, radius)
          \/ RLt(dist0, RNeg(radius)) /\ RLt(RNeg(radius), dist1) )
    THEN <<>>
    ELSE Bind1(RDiv(RSub(dist0, radius), RSub(dist0, dist1)), LAMBDA t :
      IF ~(RLe(RZero, t) /\ RLe(t, ROne)) THEN <<>>
      ELSE Bind2(RAdd(p1.x, RMul(RSub(p2.x, p1.x), t)),
                 RAdd(p1.y, RMul(RSub(p2.y, p1.y), t)), LAMBDA col_x, col_y :
        Bind1(RDiv(RAdd(RMul(RSub(col_x, q1.x), RSub(q2.x, q1.x)),
                        RMul(RSub(col_y, q1.y), RSub(q2.y, q1.y))),
                   DistSq(q2, q1)), LAMBDA proj :
          IF RLe(RZero, proj) /\ RLe(proj, ROne)
          THEN <<Vec2(col_x, col_y)>> ELSE <<>>)))

\* One pass of "for normal_sign in (+1, -1)".
EdgeTest(p1, p2, q1, q2, radius, normal_sign) ==
    Bind2(RMul(R(normal_sign), RNeg(RSub(q2.y, q1.y))),
          RMul(R(normal_sign), RSub(q2.x, q1.x)), LAMBDA rx, ry :
      Bind1(RSqrt(RAdd(RMul(rx, rx), RMul(ry, ry))), LAMBDA nlen :
        IF RIsZero(nlen) THEN <<>>
        ELSE Bind2(RDiv(rx, nlen), RDiv(ry, nlen), LAMBDA nx, ny :
          EdgeCrossing(p1, p2, q1, q2, radius,
                       RAdd(RMul(RSub(p1.x, q1.x), nx), RMul(RSub(p1.y, q1.y), ny)),
                       RAdd(RMul(RSub(p2.x, q1.x), nx), RMul(RSub(p2.y, q1.y), ny))))))

\* min(col_points, key=squared distance from p1), or None.
NearestPoint(col_points, p1) ==
    IF col_points = <<>> THEN NoPoint
    ELSE <<col_points[ArgMin([i \in 1..Len(col_points) |-> DistSq(col_points[i], p1)],
                             2, 1)]>>

\* "if pt1:" is true for every Vec2 (a dataclass without __bool__), so the
\* endpoint contacts are appended whenever they are not None.
segment_moving_circle_collision(p1, p2, q1, q2, radius) ==
    IF RIsZero(DistSq(q2, q1))
    THEN moving_circle_point_collision(p1, p2, q1, radius)
    ELSE NearestPoint(EdgeTest(p1, p2, q1, q2, radius, 1)
                        \o EdgeTest(p1, p2, q1, q2, radius, -1)
                        \o moving_circle_point_collision(p1, p2, q1, radius)
                        \o moving_circle_point_collision(p1, p2, q2, radius),
                      p1)

\* margin of is_between
is_between_margin == 2

is_between(a, b, p) ==
    /\ RLe(RSub(RMin(a.x, b.x), R(is_between_margin)), p.x)
    /\ RLe(p.x, RAdd(RMax(a.x, b.x), R(is_between_margin)))
    /\ RLe(RSub(RMin(a.y, b.y), R(is_between_margin)), p.y)
    /\ RLe(p.y, RAdd(RMax(a.y, b.y), R(is_between_margin)))

\* The body of "for seg in node.coplanar" for one seg: the pair appended to
\* collisions.
TestSegment(seg, start, end, radius) ==
    Bind1(segment_moving_circle_collision(start, end, seg.a, seg.b, radius),
      LAMBDA pt :
        IF pt # NoPoint /\ is_between(start, end, pt[1])
        THEN <<[pt |-> pt[1], seg |-> seg]>> ELSE <<>>)

\* The pairs appended for a list of segments, in the order of the list.
RECURSIVE TestSegments(_, _, _, _, _)
TestSegments(list, i, start, end, radius) ==
    IF i > Len(list) THEN <<>>
    ELSE TestSegment(list[i], start, end, radius)
           \o TestSegments(list, i + 1, start, end, radius)

\* traverse(node) of find_first_collision: the pairs it appends to
\* collisions, for the node at path p.
RECURSIVE traverse(_, _, _, _, _)
traverse(t, p, start, end, radius) ==
    IF p \notin DOMAIN t THEN <<>>
    ELSE IF t[p].partition = <<>> THEN <<>>
    ELSE Bind2(line_side(start, t[p].partition[1].a, t[p].partition[1].b),
               line_side(end, t[p].partition[1].a, t[p].partition[1].b),
      LAMBDA side_start, side_end :
        TestSegments(t[p].coplanar, 1, start, end, radius)
          \o (IF (~RNegative(side_start) /\ ~RNegative(side_end))
                 \/ ~(~RPos(side_start) /\ ~RPos(side_end))
              THEN traverse(t, Append(p, "front"), start, end, radius) ELSE <<>>)
          \o (IF ~(~RNegative(side_start) /\ ~RNegative(side_end))
              THEN traverse(t, Append(p, "back"), start, end, radius) ELSE <<>>))

\* The choice that answers the start of the sweep when nothing was met.
NearestCollisionOrStart(collisions, start) ==
    IF collisions = <<>> THEN [pt |-> <<start>>, seg |-> <<>>]
    ELSE Bind1(collisions[ArgMin([i \in 1..Len(collisions) |->
                                     DistSq(collisions[i].pt, start)], 2, 1)],
           LAMBDA c : [pt |-> <<c.pt>>, seg |-> <<c.seg>>])

\* The pair chosen among collisions: pt is the value returned (NoPoint for
\* None), seg the value left in last_collided_segment (<<>> for None).
NearestCollision(collisions, start) ==
    IF collisions = <<>> THEN [pt |-> NoPoint, seg |-> <<>>]
    ELSE Bind1(collisions[ArgMin([i \in 1..Len(collisions) |->
                                     DistSq(collisions[i].pt, start)], 2, 1)],
           LAMBDA c : [pt |-> <<c.pt>>, seg |-> <<c.seg>>])

find_first_collision(t, start, end, radius) ==
    NearestCollision(traverse(t, <<>>, start, end, radius), start)

\* The attribute set only when a contact was chosen, over the value the
\* previous call left.
LastCollidedKept(previous, r) ==
    IF r.seg = <<>> THEN previous ELSE r.seg

\* self.last_collided_segment when the call returns r: reset to None on
\* entry, then set to the segment of the contact chosen, if any.
LastCollided(previous, r) ==
    IF r.seg = <<>> THEN <<>> ELSE r.seg

\* The calls made to the detector: start, end and radius.
Sweep(sx, sy, ex, ey, radius) ==
    [start |-> Pt(sx, sy), end |-> Pt(ex, ey), radius |-> R(radius)]

Sweeps ==
    { Sweep(5, -2, 5, 2, 1), Sweep(5, -2, 5, 2, 0),
      Sweep(5, 2, 5, 6, 1),
      Sweep(14, 2, 14, 0, 2),
      Sweep(-3, 0, 0, 0, 1), Sweep(-1, 0, -4, 0, 2),
      Sweep(3, 3, 3, 3, 0), Sweep(3, 3, 3, 3, 2) }

\* CollisionDetector.find_first_collision(start, end, radius) on the built
\* tree.
FindFirstCollision ==
    /\ pc = "built"
    /\ \E sw \in Sweeps :
       \E r \in {find_first_collision(tree, sw.start, sw.end, sw.radius)} :
         /\ sweep' = <<sw>>
         /\ contact' = r.pt
         /\ last_collided_segment' = LastCollided(last_collided_segment, r)
    /\ UNCHANGED <<game_player_pos, frame>>
    /\ UNCHANGED bspVars
    /\ UNCHANGED visVars
    /\ UNCHANGED auxVars

(***************************************************************************)
(* core/game.py                                                            *)
(***************************************************************************)
\* getattr(settings, "PLAYER_COLLISION_RADIUS", 16.0); settings.py does not
\* define it.
PLAYER_COLLISION_RADIUS == 16

\* The displacement (slide_dx, slide_dy): the intended displacement
\* projected on the tangent of the wall nearest_seg.
SlideVector(nearest_seg, dx, dy) ==
    Bind2(RSub(nearest_seg.b.x, nearest_seg.a.x),
          RSub(nearest_seg.b.y, nearest_seg.a.y), LAMBDA wx, wy :
      Bind1(RSqrt(RAdd(RMul(wx, wx), RMul(wy, wy))), LAMBDA wall_len :
        IF ~RPos(wall_len) THEN <<>>
        ELSE Bind2(RDiv(wx, wall_len), RDiv(wy, wall_len), LAMBDA tx, ty :
          Bind1(RAdd(RMul(dx, tx), RMul(dy, ty)), LAMBDA dot :
            <<[dx |-> RMul(tx, dot), dy |-> RMul(ty, dot)]>>))))

\* The frame that commits the slide without sweeping it again.
ResolveMoveNoResweep(t, start, dx, dy) ==
    Bind1(find_first_collision(t, start, Vec2(RAdd(start.x, dx), RAdd(start.y, dy)),
                               R(PLAYER_COLLISION_RADIUS)), LAMBDA col :
      IF col.pt = NoPoint
      THEN [last |-> col, dx |-> dx, dy |-> dy, moved |-> <<[dx |-> dx, dy |-> dy]>>]
      ELSE Bind1(SlideVector(col.seg[1], dx, dy), LAMBDA slide :
             [last |-> col, dx |-> dx, dy |-> dy, moved |-> slide]))

\* The body of "if move or strafe" once dx, dy are known: the result of the
\* last call of find_first_collision (last), the displacement that call
\* swept (dx, dy) and the displacement handed to player.move (moved, <<>>
\* when the player does not move).
ResolveMove(t, start, dx, dy) ==
    Bind1(find_first_collision(t, start, Vec2(RAdd(start.x, dx), RAdd(start.y, dy)),
                               R(PLAYER_COLLISION_RADIUS)), LAMBDA col :
      IF col.pt = NoPoint
      THEN [last |-> col, dx |-> dx, dy |-> dy, moved |-> <<[dx |-> dx, dy |-> dy]>>]
      ELSE IF col.seg = <<>> THEN [last |-> col, dx |-> dx, dy |-> dy, moved |-> <<>>]
      ELSE Bind1(SlideVector(col.seg[1], dx, dy), LAMBDA slide :
             IF slide = <<>> THEN [last |-> col, dx |-> dx, dy |-> dy, moved |-> <<>>]
             ELSE Bind1(find_first_collision(t, start,
                          Vec2(RAdd(start.x, slide[1].dx), RAdd(start.y, slide[1].dy)),
                          R(PLAYER_COLLISION_RADIUS)), LAMBDA slide_col :
                    [last |-> slide_col, dx |-> slide[1].dx, dy |-> slide[1].dy,
                     moved |-> IF slide_col.pt = NoPoint THEN slide ELSE <<>>])))

\* player.move(dx, dy)
PlayerMove(pos, moved) ==
    IF moved = <<>> THEN pos
    ELSE Vec2(RAdd(pos.x, moved[1].dx), RAdd(pos.y, moved[1].dy))

\* The displacements (dx, dy) a frame can ask for.
Moves == { [dx |-> R(0), dy |-> R(6)], [dx |-> R(12), dy |-> R(6)],
           [dx |-> R(0), dy |-> R(-6)] }

\* Where the player is when the game starts.
PlayerStart == Pt(5, -20)

\* Game._handle_input for an input that asks for the displacement mv.
HandleInput ==
    /\ pc = "built"
    /\ Len(frame) < MaxFrames
    /\ \E mv \in Moves :
       \E res \in {ResolveMove(tree, game_player_pos, mv.dx, mv.dy)} :
         /\ frame' = Append(frame, [start |-> game_player_pos, dx |-> mv.dx, dy |-> mv.dy])
         /\ game_player_pos' = PlayerMove(game_player_pos, res.moved)
         /\ sweep' = <<[start |-> game_player_pos,
                        end |-> Vec2(RAdd(game_player_pos.x, res.dx), RAdd(game_player_pos.y, res.dy)),
                        radius |-> R(PLAYER_COLLISION_RADIUS)]>>
         /\ contact' = res.last.pt
         /\ last_collided_segment' = res.last.seg
    /\ UNCHANGED bspVars
    /\ UNCHANGED visVars
    /\ UNCHANGED auxVars

(***************************************************************************)
(* Two callers of one CollisionDetector.  A call is taken in the steps at  *)
(* which another thread can run in between: the entry (lines 26-29), the   *)
(* walk (line 48), the choice and return (lines 49-54), and the caller's   *)
(* read of last_collided_segment (game.py:109-113).                        *)
(***************************************************************************)
Callers == {1, 2}

\* No caller has a call under way.  at: where the caller is; sw: the
\* arguments of its call; collisions: the local list of its call; returned
\* and owner: the point returned to it and the segment its call chose;
\* seen: what it read in last_collided_segment after the return.
NoCallers ==
    [i \in Callers |-> [at |-> "idle", sw |-> <<>>, collisions |-> <<>>,
                        returned |-> NoPoint, owner |-> <<>>, seen |-> <<>>]]

\* The calls the two callers make: one that meets the wall (0,0)->(10,0),
\* one that meets the wall (12,-1)->(16,-1) from below, one that meets
\* nothing.
CallerSweeps ==
    { Sweep(5, -2, 5, 2, 1), Sweep(14, -4, 14, -1, 1), Sweep(3, 3, 3, 3, 2) }

\* "collisions = []" and "self.last_collided_segment = None".
CallEnter ==
    /\ pc = "built"
    /\ \E i \in Callers : \E sw \in CallerSweeps :
         /\ thread[i].at = "idle"
         /\ thread' = [thread EXCEPT ![i] = [@ EXCEPT !.at = "entered", !.sw = <<sw>>,
                                                       !.collisions = <<>>]]
         /\ last_collided_segment' = <<>>
    /\ UNCHANGED <<sweep, contact, game_player_pos, frame, subtracted>>
    /\ UNCHANGED bspVars
    /\ UNCHANGED visVars

\* "traverse(self.bsp_root)": the walk fills the local list collisions.
CallTraverse ==
    /\ pc = "built"
    /\ \E i \in Callers :
         /\ thread[i].at = "entered"
         /\ \E sw \in {thread[i].sw[1]} :
            \E found \in {traverse(tree, <<>>, sw.start, sw.end, sw.radius)} :
              thread' = [thread EXCEPT ![i] = [@ EXCEPT !.at = "traversed",
                                                        !.collisions = found]]
    /\ UNCHANGED <<sweep, contact, last_collided_segment, game_player_pos, frame,
                   subtracted>>
    /\ UNCHANGED bspVars
    /\ UNCHANGED visVars

\* "if not collisions: return None" / "self.last_collided_segment = seg;
\* return pt".
CallReturn ==
    /\ pc = "built"
    /\ \E i \in Callers :
         /\ thread[i].at = "traversed"
         /\ \E r \in {NearestCollision(thread[i].collisions, thread[i].sw[1].start)} :
            /\ thread' = [thread EXCEPT ![i] = [@ EXCEPT !.at = "returned",
                                                          !.returned = r.pt,
                                                          !.owner = r.seg]]
            /\ last_collided_segment' =
                  IF r.seg = <<>> THEN last_collided_segment ELSE r.seg
    /\ UNCHANGED <<sweep, contact, game_player_pos, frame, subtracted>>
    /\ UNCHANGED bspVars
    /\ UNCHANGED visVars

\* The caller reads self.collision.last_collided_segment.
CallerReads ==
    /\ pc = "built"
    /\ \E i \in Callers :
         /\ thread[i].at = "returned"
         /\ thread' = [thread EXCEPT ![i] = [@ EXCEPT !.at = "read",
                                                       !.seen = last_collided_segment]]
    /\ UNCHANGED <<sweep, contact, last_collided_segment, game_player_pos, frame,
                   subtracted>>
    /\ UNCHANGED bspVars
    /\ UNCHANGED visVars

Init ==
    /\ segs \in InputLists
    /\ max_depth \in 0..MaxDepthBound
    /\ strategy \in {"first", "random"}
    /\ pc = "idle"
    /\ calls = <<>>
    /\ tree = <<>>
    /\ raised = "none"
    /\ query = <<>>
    /\ ordered = <<>>
    /\ visible = <<>>
    /\ covered = <<>>
    /\ emitted = <<>>
    /\ sweep = <<>>
    /\ contact = NoPoint
    /\ last_collided_segment = <<>>
    /\ game_player_pos = PlayerStart
    /\ frame = <<>>
    /\ thread = NoCallers
    /\ subtracted = <<>>

Next == Build \/ BuildRecursive \/ ComputeVisibleSegments

Spec == Init /\ [][Next]_vars

\* A map of axis-aligned walls: the tree is built, then the detector is
\* called (SweepSpec) or the game handles movement frames (GameSpec).
SweepInit ==
    /\ segs \in SweepLists
    /\ max_depth \in 0..MaxDepthBound
    /\ strategy \in {"first", "random"}
    /\ pc = "idle"
    /\ calls = <<>>
    /\ tree = <<>>
    /\ raised = "none"
    /\ query = <<>>
    /\ ordered = <<>>
    /\ visible = <<>>
    /\ covered = <<>>
    /\ emitted = <<>>
    /\ sweep = <<>>
    /\ contact = NoPoint
    /\ last_collided_segment = <<>>
    /\ game_player_pos = PlayerStart
    /\ frame = <<>>
    /\ thread = NoCallers
    /\ subtracted = <<>>

SweepNext == Build \/ BuildRecursive \/ FindFirstCollision

SweepSpec == SweepInit /\ [][SweepNext]_vars

GameNext == Build \/ BuildRecursive \/ HandleInput

\* The two consumers of the tree called in any order on the built tree of
\* a map whose walls both of them find: every list of distinct walls of
\* QueryPool.
QueryPool ==
    << sector_wall(Wall(0, 0, 10, 0, "True", 0, "brick"), "hall", 4),
       Wall(12, -1, 16, -1, "None", 0, "None"),
       Wall(10, 0, 10, -6, "False", 0, "None") >>

QueryLists ==
    LET idx == UNION {[1..n -> 1..Len(QueryPool)] : n \in 0..Len(QueryPool)}
        inj == {f \in idx : \A i, j \in DOMAIN f : f[i] = f[j] => i = j}
    IN  {[i \in DOMAIN f |-> [QueryPool[f[i]] EXCEPT !.original_segment = i]] : f \in inj}

QueryInit ==
    /\ segs \in QueryLists
    /\ max_depth \in 0..MaxDepthBound
    /\ strategy \in {"first", "random"}
    /\ pc = "idle"
    /\ calls = <<>>
    /\ tree = <<>>
    /\ raised = "none"
    /\ query = <<>>
    /\ ordered = <<>>
    /\ visible = <<>>
    /\ covered = <<>>
    /\ emitted = <<>>
    /\ sweep = <<>>
    /\ contact = NoPoint
    /\ last_collided_segment = <<>>
    /\ game_player_pos = PlayerStart
    /\ frame = <<>>
    /\ thread = NoCallers
    /\ subtracted = <<>>

\* Two callers of the detector of a map made of the walls the calls of
\* CallerSweeps meet.
CallerLists ==
    LET idx == UNION {[1..n -> {1, 3}] : n \in 0..MaxSegs}
        inj == {f \in idx : \A i, j \in DOMAIN f : f[i] = f[j] => i = j}
    IN  {[i \in DOMAIN f |-> [SweepPool[f[i]] EXCEPT !.original_segment = i]] : f \in inj}

CallerInit ==
    /\ segs \in CallerLists
    /\ max_depth \in 0..MaxDepthBound
    /\ strategy \in {"first", "random"}
    /\ pc = "idle"
    /\ calls = <<>>
    /\ tree = <<>>
    /\ raised = "none"
    /\ query = <<>>
    /\ ordered = <<>>
    /\ visible = <<>>
    /\ covered = <<>>
    /\ emitted = <<>>
    /\ sweep = <<>>
    /\ contact = NoPoint
    /\ last_collided_segment = <<>>
    /\ game_player_pos = PlayerStart
    /\ frame = <<>>
    /\ thread = NoCallers
    /\ subtracted = <<>>

CallerNext ==
    Build \/ BuildRecursive \/ CallEnter \/ CallTraverse \/ CallReturn \/ CallerReads

CallerSpec == CallerInit /\ [][CallerNext]_vars

QueryNext == Build \/ BuildRecursive \/ ComputeVisibleSegments \/ FindFirstCollision

QuerySpec == QueryInit /\ [][QueryNext]_vars

\* The angular intervals (a0, a1), in degrees relative to the facing, of the
\* clipped pieces handed to the body of "for clipped in clipped_list": the
\* pieces of two walls that leave a gap of 1/2070 degree (under 1e-5 rad)
\* between them, and pieces around and across them.
PieceAngles == { R(-10), Norm(1, 46), Norm(1, 45), R(10), R(30) }

PieceIntervals ==
    { [a0 |-> lo, a1 |-> hi, seg_start |-> RMin(lo, hi), seg_end |-> RMax(lo, hi)] :
        lo \in PieceAngles, hi \in PieceAngles }

\* One pass of the body of "for clipped in clipped_list" (clipping enabled)
\* on the lists visible and covered of the call in progress, for a piece of
\* the root's segment seen over the interval iv.
ProcessClippedPiece ==
    /\ pc = "built"
    /\ tree[<<>>].coplanar # <<>>
    /\ \E iv \in PieceIntervals :
       \E player \in {Player(0, 0, 45, 80, 8)} :
       \E seg \in {tree[<<>>].coplanar[1]} :
       \E st \in {ProcessInterval([visible |-> visible, covered |-> covered,
                                   emitted |-> emitted], seg, 1, seg, iv)} :
         /\ query = <<>> \/ query = <<[player |-> player, clip |-> TRUE]>>
         /\ query' = <<[player |-> player, clip |-> TRUE]>>
         /\ ordered' = collect_bsp_order(tree, <<>>, player.pos)
         /\ visible' = st.visible
         /\ covered' = st.covered
         /\ emitted' = st.emitted
    /\ UNCHANGED bspVars
    /\ UNCHANGED colVars
    /\ UNCHANGED auxVars

CoverLists == { <<QueryPool[1]>> }

CoverInit ==
    /\ segs \in CoverLists
    /\ max_depth \in 0..MaxDepthBound
    /\ strategy \in {"first", "random"}
    /\ pc = "idle"
    /\ calls = <<>>
    /\ tree = <<>>
    /\ raised = "none"
    /\ query = <<>>
    /\ ordered = <<>>
    /\ visible = <<>>
    /\ covered = <<>>
    /\ emitted = <<>>
    /\ sweep = <<>>
    /\ contact = NoPoint
    /\ last_collided_segment = <<>>
    /\ game_player_pos = PlayerStart
    /\ frame = <<>>
    /\ thread = NoCallers
    /\ subtracted = <<>>

CoverNext == Build \/ BuildRecursive \/ ProcessClippedPiece

CoverSpec == CoverInit /\ [][CoverNext]_vars

\* _subtract_intervals called on its own: intervals (start < end) over five
\* angles and lists of at most MaxCovered of them, in any order, repeated
\* and overlapping ones included.
MaxCovered == 2

ProperIntervals ==
    { iv \in { <<R(lo), R(hi)>> : lo \in 0..4, hi \in 0..4 } : RLt(iv[1], iv[2]) }

CoveredArguments == UNION { [1..n -> ProperIntervals] : n \in 0..MaxCovered }

SubtractIntervals ==
    /\ subtracted = <<>>
    /\ \E interval \in ProperIntervals, cov \in CoveredArguments :
         subtracted' = <<[interval |-> interval, covered |-> cov,
                          result |-> subtract_intervals(interval, cov)]>>
    /\ UNCHANGED <<thread>>
    /\ UNCHANGED bspVars
    /\ UNCHANGED visVars
    /\ UNCHANGED colVars

SubtractInit ==
    /\ segs = <<>>
    /\ max_depth = 0
    /\ strategy = "first"
    /\ pc = "idle"
    /\ calls = <<>>
    /\ tree = <<>>
    /\ raised = "none"
    /\ query = <<>>
    /\ ordered = <<>>
    /\ visible = <<>>
    /\ covered = <<>>
    /\ emitted = <<>>
    /\ sweep = <<>>
    /\ contact = NoPoint
    /\ last_collided_segment = <<>>
    /\ game_player_pos = PlayerStart
    /\ frame = <<>>
    /\ thread = NoCallers
    /\ subtracted = <<>>

SubtractNext == SubtractIntervals

SubtractSpec == SubtractInit /\ [][SubtractNext]_vars

GameSpec == SweepInit /\ [][GameNext]_vars

\* A map of two walls far from each other and a player that starts above
\* one of them or between them, farther than the collision radius from both.
WalkPool ==
    << Wall(0, 0, 10, 0, "None", 0, "None"),
       Wall(40, -1, 44, -1, "None", 0, "None") >>

WalkLists ==
    LET idx == UNION {[1..n -> 1..Len(WalkPool)] : n \in 0..Len(WalkPool)}
        inj == {f \in idx : \A i, j \in DOMAIN f : f[i] = f[j] => i = j}
    IN  {[i \in DOMAIN f |-> [WalkPool[f[i]] EXCEPT !.original_segment = i]] : f \in inj}

WalkStarts == { Pt(42, 20), Pt(5, 20), Pt(25, 20) }

WalkInit ==
    /\ segs \in WalkLists
    /\ max_depth \in 0..MaxDepthBound
    /\ strategy \in {"first", "random"}
    /\ pc = "idle"
    /\ calls = <<>>
    /\ tree = <<>>
    /\ raised = "none"
    /\ query = <<>>
    /\ ordered = <<>>
    /\ visible = <<>>
    /\ covered = <<>>
    /\ emitted = <<>>
    /\ sweep = <<>>
    /\ contact = NoPoint
    /\ last_collided_segment = <<>>
    /\ game_player_pos \in WalkStarts
    /\ frame = <<>>
    /\ thread = NoCallers
    /\ subtracted = <<>>

WalkSpec == WalkInit /\ [][GameNext]_vars

\* The builder on its own: build is called and each activation of
\* _build_recursive runs to its end (synchronous, single-threaded code).
BuildNext == Build \/ BuildRecursive

BuildSpec == Init /\ [][BuildNext]_vars

FairBuildSpec ==
    Init /\ [][BuildNext]_vars /\ WF_vars(Build) /\ WF_vars(BuildRecursive)

(***************************************************************************)
(* Reading the tree                                                        *)
(***************************************************************************)
IsPrefix(p, q) == Len(p) <= Len(q) /\ SubSeq(q, 1, Len(p)) = p

\* The coplanar lists of the node at p and of every node below it.
RECURSIVE AllCoplanar(_, _)
AllCoplanar(t, p) ==
    IF p \notin DOMAIN t THEN <<>>
    ELSE t[p].coplanar \o AllCoplanar(t, Append(p, "front"))
                       \o AllCoplanar(t, Append(p, "back"))

\* No sub-list was discarded by the depth guard: a child node is only
\* created for a non-empty list, so it is empty only when depth > max_depth.
NoTruncation == \A p \in DOMAIN tree : p # <<>> => tree[p].partition # <<>>

(***************************************************************************)
(* Exact lengths: sqrt(n/d) = coef * sqrt(rad) with rad square-free.       *)
(* Square roots of distinct square-free integers are linearly independent  *)
(* over the rationals, so two sums of lengths are equal exactly when, for   *)
(* every rad, their coefficients add up to the same rational.              *)
(***************************************************************************)
RECURSIVE SqDiv(_, _, _)
SqDiv(n, k, best) ==
    IF k * k > n THEN best
    ELSE SqDiv(n, k + 1, IF n % (k * k) = 0 THEN k ELSE best)

SegLength(s) ==
    LET dx == RSub(s.b.x, s.a.x)
        dy == RSub(s.b.y, s.a.y)
        l2 == RAdd(RMul(dx, dx), RMul(dy, dy))
        k1 == SqDiv(l2[1], 1, 1)
        k2 == SqDiv(l2[2], 1, 1)
        m1 == l2[1] \div (k1 * k1)
        m2 == l2[2] \div (k2 * k2)
    IN  IF l2[1] = 0 THEN [coef |-> RZero, rad |-> 1]
        ELSE [coef |-> Norm(k1, k2 * m2), rad |-> m1 * m2]

RECURSIVE SumCoef(_, _, _)
SumCoef(list, rad, k) ==
    IF k > Len(list) THEN RZero
    ELSE RAdd(IF SegLength(list[k]).rad = rad THEN SegLength(list[k]).coef ELSE RZero,
              SumCoef(list, rad, k + 1))

Radicands(list) == {SegLength(list[k]).rad : k \in 1..Len(list)}

SameTotalLength(l1, l2) ==
    \A rad \in Radicands(l1) \cup Radicands(l2) :
        SumCoef(l1, rad, 1) = SumCoef(l2, rad, 1)

(***************************************************************************)
(* Properties of the BSP builder                                           *)
(***************************************************************************)
\* C1 (as stated): once build has returned, the coplanar lists of all nodes
\* hold segments whose total length is the total length of the input, for
\* every max_depth and strategy.
C1_Completeness ==
    pc = "built" => SameTotalLength(AllCoplanar(tree, <<>>), segs)

\* C1 (amended): the total length is preserved whenever the depth guard
\* discarded no sub-list, i.e. the returned tree has no partition-less
\* child node.
C1_CompletenessNoTruncation ==
    (pc = "built" /\ NoTruncation) => SameTotalLength(AllCoplanar(tree, <<>>), segs)

C1_Witness ==
    /\ pc = "built" /\ NoTruncation
    /\ Len(AllCoplanar(tree, <<>>)) > Len(segs)
    /\ Len(segs) = MaxSegs

OnSide(s, part, sign) ==
    LET sa == line_side(s.a, part.a, part.b)
        sb == line_side(s.b, part.a, part.b)
    IN  CASE sign = 1 -> ~RNegative(sa) /\ ~RNegative(sb)
          [] sign = -1 -> ~RPos(sa) /\ ~RPos(sb)
          [] OTHER -> RIsZero(sa) /\ RIsZero(sb)

SegsOf(list) == {list[k] : k \in 1..Len(list)}

ParentPartition(c) == tree[SubSeq(c.path, 1, Len(c.path) - 1)].partition[1]

\* C3: when a node is built, a segment of its list (other than the
\* partition) with both endpoints exactly on the partition's line is stored
\* in the node's coplanar list and passed to neither sub-list.
C3_CoplanarClassification ==
    \A k \in 1..Len(calls) : calls[k].path # <<>> =>
        \A s \in SegsOf(calls[k].list) : ~OnSide(s, ParentPartition(calls[k]), 0)

DepthBounded ==
    \A p \in DOMAIN tree :
        /\ Len(p) <= max_depth + 1
        /\ tree[p].partition # <<>> => Len(p) <= max_depth
        /\ Len(p) = max_depth + 1 =>
              /\ tree[p] = EmptyNode
              /\ ~HasFront(tree, p) /\ ~HasBack(tree, p)

\* C4: build terminates, and no node deeper than max_depth holds a
\* partition: a sub-list that reaches depth max_depth + 1 becomes an empty
\* node without partition, coplanar segments or children.
C4_TerminatesDepthBounded == <>(pc = "built") /\ [](DepthBounded)

C4_Witness ==
    /\ pc = "built"
    /\ \E p \in DOMAIN tree : Len(p) = max_depth + 1 /\ tree[p] = EmptyNode

\* C5: build of an empty list returns an empty leaf, and build never
\* reaches partition selection with an empty list (no BSPBuildError).
C5_EmptyBuildNoError ==
    /\ raised = "none"
    /\ pc # "failed"
    /\ (pc = "built" /\ segs = <<>>) =>
          /\ DOMAIN tree = {<<>>}
          /\ tree[<<>>] = EmptyNode
          /\ is_leaf(tree, <<>>)

C5_Witness == pc = "built" /\ segs = <<>> /\ is_leaf(tree, <<>>)

(***************************************************************************)
(* Properties of the visibility solver                                     *)
(***************************************************************************)
Queried == query # <<>>
ClipQueried == query # <<>> /\ query[1].clip
ViewPos == query[1].player.pos

OneHop(s) ==
    /\ s.original_segment \in 1..Len(segs)
    /\ segs[s.original_segment].original_segment = s.original_segment

\* C6: the original_segment of every segment stored in the tree (partitions,
\* unsplit copies, split pieces) and of every returned fragment is one of
\* the segments given to build, whose original_segment is itself.
C6_OriginalOneHop ==
    /\ \A p \in DOMAIN tree :
         /\ \A s \in SegsOf(tree[p].coplanar) : OneHop(s)
         /\ tree[p].partition # <<>> => OneHop(tree[p].partition[1])
    /\ \A s \in SegsOf(visible) : OneHop(s)

C6_Witness ==
    /\ ClipQueried
    /\ Len(AllCoplanar(tree, <<>>)) > Len(segs)
    /\ \E i \in 1..Len(visible) :
         LET o == segs[visible[i].original_segment]
         IN  visible[i].a # o.a /\ visible[i].b # o.b /\ visible[i].a # o.b

Positions(list, s) == {k \in 1..Len(list) : list[k] = s}

NearChild(p) ==
    IF ~RNegative(line_side(ViewPos, tree[p].partition[1].a, tree[p].partition[1].b))
    THEN "front" ELSE "back"
FarChild(p) == IF NearChild(p) = "front" THEN "back" ELSE "front"

\* C7: the walk lists every segment of every coplanar list exactly once,
\* and at every node the segments of the viewer-side subtree come before
\* the node's coplanar segments, which come before those of the other
\* subtree.
C7_NearToFar ==
    Queried =>
      /\ Len(ordered) = Len(AllCoplanar(tree, <<>>))
      /\ \A s \in SegsOf(AllCoplanar(tree, <<>>)) : Cardinality(Positions(ordered, s)) = 1
      /\ \A p \in DOMAIN tree : tree[p].partition # <<>> =>
           \A c \in SegsOf(tree[p].coplanar) :
             /\ \A n \in SegsOf(AllCoplanar(tree, Append(p, NearChild(p)))) :
                  \A i \in Positions(ordered, n), j \in Positions(ordered, c) : i < j
             /\ \A f \in SegsOf(AllCoplanar(tree, Append(p, FarChild(p)))) :
                  \A i \in Positions(ordered, c), j \in Positions(ordered, f) : i < j

C7_Witness ==
    /\ Queried
    /\ \E p \in DOMAIN tree :
         /\ tree[p].partition # <<>>
         /\ NearChild(p) = "back"
         /\ AllCoplanar(tree, Append(p, "front")) # <<>>
         /\ AllCoplanar(tree, Append(p, "back")) # <<>>

\* Directions as seen from the viewer, and the angular wedge a segment
\* subtends.  Every returned fragment lies in the FOV triangle, so all
\* directions compared lie in one open half-plane and the cross product
\* orders them by angle.
Dir(pt) == Vec2(RSub(pt.x, ViewPos.x), RSub(pt.y, ViewPos.y))
Cross(u, v) == RSub(RMul(u.x, v.y), RMul(u.y, v.x))
Dot(u, v) == RAdd(RMul(u.x, v.x), RMul(u.y, v.y))
WedgeLo(s) == IF ~RNegative(Cross(Dir(s.a), Dir(s.b))) THEN Dir(s.a) ELSE Dir(s.b)
WedgeHi(s) == IF ~RNegative(Cross(Dir(s.a), Dir(s.b))) THEN Dir(s.b) ELSE Dir(s.a)

\* The wedges of s and r share a sub-interval of positive angular length.
WedgeOverlap(s, r) ==
    /\ ~RIsZero(Cross(Dir(s.a), Dir(s.b)))
    /\ ~RIsZero(Cross(Dir(r.a), Dir(r.b)))
    /\ RPos(Cross(WedgeLo(s), WedgeHi(r)))
    /\ RPos(Cross(WedgeLo(r), WedgeHi(s)))

\* C8: no two distinct fragments returned by one call with clipping enabled
\* share an angular sub-interval of positive length.
C8_NonOverlap ==
    ClipQueried =>
      \A i, j \in 1..Len(visible) : i # j => ~WedgeOverlap(visible[i], visible[j])

QueryHalf == Norm(query[1].player.fov_deg + fov_margin_deg, 2)
QueryTri == FovTriangle(query[1].player, QueryHalf, query[1].player.fov_length)

\* C9: a fragment is emitted at an angle only if no segment processed
\* earlier in the walk, facing the viewer and inside the FOV triangle,
\* covers that angle.
C9_OcclusionByNearer ==
    ClipQueried =>
      \A i \in 1..Len(visible) : \A k \in 1..(emitted[i].k - 1) :
        is_segment_facing_player(ordered[k], ViewPos) =>
          \A c \in SegsOf(clip_segment_to_triangle_multi(ordered[k], QueryTri)) :
            ~WedgeOverlap(visible[i], c)

\* The facing direction is the bisector of the two FOV edges.
FacingDir ==
    Vec2(RAdd(RSub(QueryTri[2].x, ViewPos.x), RSub(QueryTri[3].x, ViewPos.x)),
         RAdd(RSub(QueryTri[2].y, ViewPos.y), RSub(QueryTri[3].y, ViewPos.y)))

RAbs(q) == IF RNegative(q) THEN RNeg(q) ELSE q

\* pt is seen at no more than atan(tn/td) from the facing direction.
WithinTan(pt, tn, td) ==
    \/ pt = ViewPos
    \/ /\ RPos(Dot(FacingDir, Dir(pt)))
       /\ RLe(RMul(R(td), RAbs(Cross(FacingDir, Dir(pt)))),
              RMul(R(tn), Dot(FacingDir, Dir(pt))))

ExactDirection(pt) ==
    LET d == Dir(pt)
    IN  RIsZero(d.x) \/ RIsZero(d.y) \/ d.x = d.y \/ d.x = RNeg(d.y)

AnglesExact ==
    ClipQueried =>
      \A k \in 1..Len(ordered) : is_segment_facing_player(ordered[k], ViewPos) =>
        \A c \in SegsOf(clip_segment_to_triangle_multi(ordered[k], QueryTri)) :
          ExactDirection(c.a) /\ ExactDirection(c.b)

\* The viewer is on the visible side of the wall s: strictly on the left of
\* a->b when interior_facing is true, not on that side when it is false.
OnVisibleSide(s, pos) ==
    \/ s.interior_facing = "True" /\ RPos(line_side(pos, s.a, s.b))
    \/ s.interior_facing = "False" /\ ~RPos(line_side(pos, s.a, s.b))

\* C11: with clipping enabled or disabled, every returned fragment belongs to
\* a segment whose visible side contains the viewer (interior_facing true:
\* viewer strictly on the left of a->b; false: viewer not on that side), and
\* every covered interval starts and ends at bounds of intervals that were
\* emitted for such segments, so back-facing segments add nothing to covered.
C11_FacingFilter ==
    Queried =>
      /\ \A i \in 1..Len(visible) :
            /\ OnVisibleSide(segs[visible[i].original_segment], ViewPos)
            /\ visible[i].interior_facing =
                  segs[visible[i].original_segment].interior_facing
      /\ \A i \in 1..Len(emitted) : OnVisibleSide(ordered[emitted[i].k], ViewPos)
      /\ \A i \in 1..Len(covered) :
            /\ \E j \in 1..Len(emitted) : emitted[j].ia = covered[i][1]
            /\ \E j \in 1..Len(emitted) : emitted[j].ib = covered[i][2]

\* A query that returned a fragment while the tree also holds a segment
\* inside the FOV triangle whose visible side does not contain the viewer.
C11_Witness ==
    /\ ClipQueried
    /\ visible # <<>>
    /\ \E k \in 1..Len(ordered) :
         /\ ~OnVisibleSide(ordered[k], ViewPos)
         /\ ordered[k].interior_facing \in {"True", "False"}
         /\ clip_segment_to_triangle_multi(ordered[k], QueryTri) # <<>>

WithoutPortals(list) == SelectSeq(list, LAMBDA s : s.wall_type # "portal")
OfSolidWalls(list) ==
    SelectSeq(list, LAMBDA f : segs[f.original_segment].wall_type # "portal")

\* C12: with clipping enabled, the fragments returned for the solid walls
\* are the fragments the same walk returns when the portal segments are left
\* out of it: a segment with wall_type = portal occludes nothing behind it.
C12_PortalTransparency ==
    ClipQueried =>
      OfSolidWalls(visible) =
        ClipLoop([visible |-> <<>>, covered |-> <<>>, emitted |-> <<>>],
                 WithoutPortals(ordered), 1, query[1].player, QueryHalf,
                 QueryTri).visible

\* pt is inside the FOV triangle of the last query, border included.
InTriangle(pt) ==
    /\ ~RNegative(line_side(pt, QueryTri[1], QueryTri[2]))
    /\ ~RNegative(line_side(pt, QueryTri[2], QueryTri[3]))
    /\ ~RNegative(line_side(pt, QueryTri[3], QueryTri[1]))

\* No segment processed before ordered[k], facing the viewer and inside the
\* FOV triangle, covers a part of the angular span of ordered[k].
NotCoveredByNearer(k) ==
    \A j \in 1..(k - 1) : is_segment_facing_player(ordered[j], ViewPos) =>
      \A c \in SegsOf(clip_segment_to_triangle_multi(ordered[j], QueryTri)) :
        ~WedgeOverlap(ordered[k], c)

FullyVisible(k) ==
    /\ InTriangle(ordered[k].a) /\ InTriangle(ordered[k].b)
    /\ NotCoveredByNearer(k)

\* The segment faces the viewer and is not seen edge-on.
FacingWithSpan(k) ==
    /\ OnVisibleSide(ordered[k], ViewPos)
    /\ ~RIsZero(line_side(ViewPos, ordered[k].a, ordered[k].b))

FragmentsOf(k) == {i \in 1..Len(emitted) : emitted[i].k = k}

ReturnedWhole(k) ==
    /\ Cardinality(FragmentsOf(k)) = 1
    /\ \A i \in FragmentsOf(k) :
         {visible[i].a, visible[i].b} = {ordered[k].a, ordered[k].b}

\* The angle, relative to the facing direction, at which pt is seen.
ViewAngle(pt) ==
    angle_diff(Atan2(RSub(pt.y, ViewPos.y), RSub(pt.x, ViewPos.x)),
               R(query[1].player.angle_deg))

\* The intervals of the fragments of ordered[k1] and ordered[k2] meet at the
\* angle of the endpoint the two segments share.
MeetAtSharedEndpoint(k1, k2) ==
    \A pt \in {ordered[k1].a, ordered[k1].b} \cap {ordered[k2].a, ordered[k2].b} :
      \A i \in FragmentsOf(k1), j \in FragmentsOf(k2) :
        \/ emitted[i].ib = ViewAngle(pt) /\ emitted[j].ia = ViewAngle(pt)
        \/ emitted[j].ib = ViewAngle(pt) /\ emitted[i].ia = ViewAngle(pt)

ReturnedUnclipped(f) ==
    {f.a, f.b} = {segs[f.original_segment].a, segs[f.original_segment].b}

C14_WitnessInterior ==
    /\ ClipQueried
    /\ \E i \in 1..Len(visible) :
         /\ ReturnedUnclipped(visible[i])
         /\ visible[i].interior_facing = "True"
         /\ ~RIsZero(visible[i].u_offset.c)

(***************************************************************************)
(* Claims about the collision detector                                     *)
(***************************************************************************)
Swept == sweep # <<>>
Hit == sweep # <<>> /\ contact # NoPoint

\* The squared distance from pt to the wall w (to its nearest point).
SegDistSq(pt, w) ==
    Bind2(RSub(w.b.x, w.a.x), RSub(w.b.y, w.a.y), LAMBDA wx, wy :
      Bind1(RAdd(RMul(wx, wx), RMul(wy, wy)), LAMBDA len2 :
        IF RIsZero(len2) THEN DistSq(pt, w.a)
        ELSE Bind1(RMax(RZero, RMin(ROne,
                     RDiv(RAdd(RMul(RSub(pt.x, w.a.x), wx),
                               RMul(RSub(pt.y, w.a.y), wy)), len2))), LAMBDA t :
               DistSq(pt, Vec2(RAdd(w.a.x, RMul(wx, t)), RAdd(w.a.y, RMul(wy, t)))))))

\* pt is a point of the straight path from a to b.
OnPath(pt, a, b) ==
    /\ RIsZero(RSub(RMul(RSub(pt.x, a.x), RSub(b.y, a.y)),
                    RMul(RSub(pt.y, a.y), RSub(b.x, a.x))))
    /\ RLe(RMin(a.x, b.x), pt.x) /\ RLe(pt.x, RMax(a.x, b.x))
    /\ RLe(RMin(a.y, b.y), pt.y) /\ RLe(pt.y, RMax(a.y, b.y))

MidPoint(a, b) ==
    Vec2(RDiv(RAdd(a.x, b.x), R(2)), RDiv(RAdd(a.y, b.y), R(2)))

\* The circle centred at pt does not reach the wall w.
Clear(pt, w, radius) == RLt(RMul(radius, radius), SegDistSq(pt, w))

\* pt and the start of the sweep are not on opposite sides of the wall w.
OnStartSide(pt, w) ==
    ~RNegative(RMul(line_side(pt, w.a, w.b), line_side(sweep[1].start, w.a, w.b)))

\* C15: when find_first_collision returns a point, no candidate of a tested
\* segment is nearer to start, the point is on the path from start to end,
\* the centre is there at distance radius from the segment recorded in
\* last_collided_segment, on the side the sweep starts from, that segment
\* produced the point, and the circle touches no wall of the tree earlier
\* on the path (not at start, not half way to the point); radius 1 swept
\* from (5,-2) to (5,2) against ((0,0),(10,0)) gives (5,-1) and that wall.
C15_EarliestContact ==
    /\ Hit =>
         LET sw == sweep[1]
             pt == contact[1]
             cands == traverse(tree, <<>>, sw.start, sw.end, sw.radius)
         IN  /\ \A i \in 1..Len(cands) :
                   RLe(DistSq(pt, sw.start), DistSq(cands[i].pt, sw.start))
             /\ OnPath(pt, sw.start, sw.end)
             /\ last_collided_segment # <<>>
             /\ \E i \in 1..Len(cands) :
                   cands[i].pt = pt /\ cands[i].seg = last_collided_segment[1]
             /\ SegDistSq(pt, last_collided_segment[1]) = RMul(sw.radius, sw.radius)
             /\ OnStartSide(pt, last_collided_segment[1])
             /\ pt # sw.start =>
                   \A w \in SegsOf(AllCoplanar(tree, <<>>)) :
                     /\ Clear(sw.start, w, sw.radius)
                     /\ Clear(MidPoint(sw.start, pt), w, sw.radius)
    /\ ( /\ Swept
         /\ sweep[1] = Sweep(5, -2, 5, 2, 1)
         /\ AllCoplanar(tree, <<>>) = <<[SweepPool[1] EXCEPT !.original_segment = 1]>> )
       => ( /\ contact = <<Pt(5, -1)>>
            /\ last_collided_segment = <<[SweepPool[1] EXCEPT !.original_segment = 1]>> )

\* The example of C15 was run.
C15_Example ==
    /\ Swept
    /\ sweep[1] = Sweep(5, -2, 5, 2, 1)
    /\ AllCoplanar(tree, <<>>) = <<[SweepPool[1] EXCEPT !.original_segment = 1]>>
    /\ contact = <<Pt(5, -1)>>

\* C16: a segment with blocks_collision = false is never the segment recorded
\* in last_collided_segment, and a call that returns a point records the
\* segment that produced it: portals produce no contact.
C16_PortalsExcluded ==
    Swept =>
      /\ \A i \in 1..Len(last_collided_segment) :
            last_collided_segment[i].blocks_collision
      /\ contact # NoPoint => last_collided_segment # <<>>

\* The result of testing the moving circle against every segment stored in
\* the tree, in the order of the walk, without pruning.
FlatSweep(start, end, radius) ==
    NearestCollision(TestSegments(AllCoplanar(tree, <<>>), 1, start, end, radius),
                     start)

\* C17: find_first_collision over the tree returns what the test of every
\* segment stored in the tree returns: the same point, or none in both.
C17_SweepEqualsFlat ==
    Swept =>
      contact = FlatSweep(sweep[1].start, sweep[1].end, sweep[1].radius).pt

(***************************************************************************)
(* Claims about the movement of the player                                 *)
(***************************************************************************)
\* The displacement (dx, dy) projected on the direction of the wall w.
TangentProjection(w, dx, dy) ==
    LET wx == RSub(w.b.x, w.a.x)
        wy == RSub(w.b.y, w.a.y)
        along == RDiv(RAdd(RMul(dx, wx), RMul(dy, wy)),
                      RAdd(RMul(wx, wx), RMul(wy, wy)))
    IN  [dx |-> RMul(wx, along), dy |-> RMul(wy, along)]

\* What the detector answers for the displacement d of a player at start.
SweepOf(start, d) ==
    find_first_collision(tree, start,
                         Vec2(RAdd(start.x, d.dx), RAdd(start.y, d.dy)),
                         R(PLAYER_COLLISION_RADIUS))

\* C18: in a movement frame the position changes by the full intended
\* displacement, and then the first sweep reported no contact; or by the
\* intended displacement projected on the tangent of the wall the first
\* sweep recorded, and then the first sweep reported a contact and the sweep
\* of the projected displacement none; or not at all.  A displacement
\* whose own sweep reports a contact is never committed.
C18_MovementResolution ==
    [][ frame' # frame =>
          Bind3(game_player_pos,
                [dx |-> frame'[Len(frame')].dx, dy |-> frame'[Len(frame')].dy],
                [dx |-> RSub(game_player_pos'.x, game_player_pos.x),
                 dy |-> RSub(game_player_pos'.y, game_player_pos.y)],
            LAMBDA start, intended, delta :
              Bind2(SweepOf(start, intended), SweepOf(start, delta),
                LAMBDA first, second :
                  /\ \/ delta = intended /\ first.pt = NoPoint
                     \/ /\ first.pt # NoPoint
                        /\ first.seg # <<>>
                        /\ first.seg[1].a # first.seg[1].b
                        /\ delta = TangentProjection(first.seg[1],
                                                     intended.dx, intended.dy)
                        /\ second.pt = NoPoint
                     \/ delta = [dx |-> RZero, dy |-> RZero]
                  /\ second.pt = NoPoint)) ]_vars

\* A frame whose first sweep reported a contact and that moved the player
\* along the wall.
C18_Witness ==
    /\ frame # <<>>
    /\ game_player_pos # frame[Len(frame)].start
    /\ game_player_pos # Vec2(RAdd(frame[Len(frame)].start.x, frame[Len(frame)].dx),
                              RAdd(frame[Len(frame)].start.y, frame[Len(frame)].dy))

\* A frame whose first sweep reported a contact, whose slide was not zero
\* and that left the player where it was.
C18_WitnessBlocked ==
    /\ frame # <<>>
    /\ game_player_pos = frame[Len(frame)].start
    /\ contact # NoPoint
    /\ sweep[1].end # sweep[1].start
    /\ sweep[1].end # Vec2(RAdd(frame[Len(frame)].start.x, frame[Len(frame)].dx),
                           RAdd(frame[Len(frame)].start.y, frame[Len(frame)].dy))

\* The radii a sweep is repeated with.
Radii == {0, 1, 2, 3}

\* C19: if find_first_collision reports a contact for a sweep, it reports a
\* contact for the same start and end on the same tree with every larger
\* radius.
C19_MonotoneInRadius ==
    Hit => \A larger \in Radii :
              RLt(sweep[1].radius, R(larger)) =>
                find_first_collision(tree, sweep[1].start, sweep[1].end,
                                     R(larger)).pt # NoPoint

\* The points a circle is left standing at: on a wall, on the zero-length
\* wall, on a wall end, beside a wall, far from every wall.
StillPoints == {Pt(5, 0), Pt(3, 3), Pt(10, 0), Pt(0, -1), Pt(5, -20)}

\* C20: a sweep whose start and end are the same point reports no contact
\* and leaves last_collided_segment at none, for every radius and on every
\* tree, trees holding a zero-length wall included: so did the sweep that
\* was made, and so does, on every tree as build returned it, the sweep
\* from each of StillPoints to itself with each radius.
C20_ZeroLengthSweep ==
    /\ Swept /\ sweep[1].start = sweep[1].end
         => contact = NoPoint /\ last_collided_segment = <<>>
    /\ pc = "built" /\ ~Swept
         => \A p \in StillPoints : \A r \in Radii :
               find_first_collision(tree, p, p, R(r))
                 = [pt |-> NoPoint, seg |-> <<>>]

\* A circle of radius 2 left standing on the zero-length wall stored in
\* the tree.
C20_Witness ==
    /\ Swept
    /\ sweep[1].start = sweep[1].end
    /\ RLt(RZero, sweep[1].radius)
    /\ \E i \in 1..Len(AllCoplanar(tree, <<>>)) :
          /\ AllCoplanar(tree, <<>>)[i].a = sweep[1].start
          /\ AllCoplanar(tree, <<>>)[i].b = sweep[1].start

(***************************************************************************)
(* Split pieces                                                            *)
(***************************************************************************)
\* The fields a piece takes over from the segment it is a piece of.
SameMetadata(w, s) ==
    /\ w.interior_facing = s.interior_facing
    /\ w.u_offset = s.u_offset
    /\ w.texture_name = s.texture_name
    /\ w.height = s.height
    /\ w.polygon_name = s.polygon_name
    /\ w.blocks_collision = s.blocks_collision
    /\ w.wall_type = s.wall_type
    /\ w.portal_sections = s.portal_sections

\* s has its endpoints strictly on opposite sides of the line of part.
Crosses(s, part) ==
    Bind2(line_side(s.a, part.a, part.b), line_side(s.b, part.a, part.b),
      LAMBDA sa, sb : (RPos(sa) /\ RNegative(sb)) \/ (RNegative(sa) /\ RPos(sb)))

\* f and b are the two pieces of s cut by the line of part: they run from
\* the ends of s to one common point on the line, f on the positive side
\* and b on the negative side.
PiecesOf(f, b, s, part) ==
    /\ SameMetadata(f, s) /\ SameMetadata(b, s)
    /\ \/ f.a = s.a /\ f.b = b.a /\ b.b = s.b
       \/ b.a = s.a /\ b.b = f.a /\ f.b = s.b
    /\ \E x \in {f.a, f.b} \cap {b.a, b.b} : RIsZero(line_side(x, part.a, part.b))
    /\ OnSide(f, part, 1) /\ ~OnSide(f, part, 0)
    /\ OnSide(b, part, -1) /\ ~OnSide(b, part, 0)

\* The activation of _build_recursive that is about to run classifies its
\* list (it does not return at the guard).
Classifies == pc = "building" /\ calls # <<>>
              /\ ~BuildGuard(Head(calls).list, Head(calls).depth)

\* C21: when an activation of _build_recursive splits a segment that
\* crosses its partition, the lists handed to the front and the back child
\* hold one piece of it each: both have the metadata of the segment that
\* was split, they share the crossing point as an endpoint, and the piece
\* of the front list is the one on the positive side.  Every segment the
\* tree stores has the metadata of the input segment it is a piece of.
C21_SplitInheritsMetadata ==
    /\ [](\A w \in SegsOf(AllCoplanar(tree, <<>>)) :
            w.original_segment \in 1..Len(segs)
              /\ SameMetadata(w, segs[w.original_segment]))
    /\ [][ Classifies =>
            Bind2(Head(calls), tree'[Head(calls).path].partition[1],
              LAMBDA c, part :
                \A s \in SegsOf(c.list) : Crosses(s, part) =>
                  /\ Len(calls') >= 2
                  /\ calls'[1].path = Append(c.path, "front")
                  /\ calls'[2].path = Append(c.path, "back")
                  /\ \E f \in SegsOf(calls'[1].list) :
                     \E b \in SegsOf(calls'[2].list) :
                        /\ f.original_segment = s.original_segment
                        /\ b.original_segment = s.original_segment
                        /\ PiecesOf(f, b, s, part)) ]_vars

\* The tree holds the two pieces of a portal that the partition cut.
C21_Witness ==
    /\ pc = "built"
    /\ \E f, b \in SegsOf(AllCoplanar(tree, <<>>)) :
          /\ f.wall_type = "portal" /\ f.portal_sections # PyNone
          /\ f.original_segment = b.original_segment
          /\ f # b /\ f.b = b.a

(***************************************************************************)
(* The tree under queries                                                  *)
(***************************************************************************)
\* C22: once build has returned, no call of compute_visible_segments or
\* find_first_collision changes the tree: every node keeps its partition,
\* its coplanar list (same segments, same order) and its children.
C22_QueriesLeaveTree ==
    [][pc = "built" => pc' = "built" /\ tree' = tree]_vars

\* Both queries have been answered on a tree that has child nodes and
\* stores a piece of a split wall, and each found something.
C22_Witness ==
    /\ Queried /\ Swept
    /\ visible # <<>> /\ contact # NoPoint
    /\ HasFront(tree, <<>>) /\ HasBack(tree, <<>>)
    /\ \E w \in SegsOf(AllCoplanar(tree, <<>>)) : w.a # segs[w.original_segment].a

(***************************************************************************)
(* Concurrent calls of the detector                                        *)
(***************************************************************************)
\* C23: when two find_first_collision calls on one detector interleave,
\* each caller, once its call has returned, reads in last_collided_segment
\* the segment that owns the contact point returned to it, and none when
\* it was returned none.
C23_ConcurrentCallsIndependent ==
    \A i \in Callers : thread[i].at = "read" => thread[i].seen = thread[i].owner

(***************************************************************************)
(* Queries on an empty tree                                                *)
(***************************************************************************)
\* A root without partition (BSPNode()), and no root at all (None).
EmptyRoot == pc = "built" /\ tree[<<>>].partition = <<>>
NoRoot == <<>>

\* What compute_visible_segments returns for the list "ordered" of a walk.
VisibleOf(ord, player, clip) ==
    Bind1(Norm(player.fov_deg + fov_margin_deg, 2), LAMBDA half :
      IF clip
      THEN ClipLoop([visible |-> <<>>, covered |-> <<>>, emitted |-> <<>>], ord, 1,
                    player, half, FovTriangle(player, half, player.fov_length)).visible
      ELSE NoClipLoop(<<>>, ord, 1, player.pos,
                      R(player.fov_length * player.fov_length)))

\* C24: on a tree whose root has no partition, and without a root,
\* compute_visible_segments returns the empty list for every viewer in both
\* clip modes, and find_first_collision returns none (and records no
\* segment) for every start, end and radius.
C24_EmptyTreeQueries ==
    /\ EmptyRoot /\ Queried => visible = <<>>
    /\ EmptyRoot /\ Swept => contact = NoPoint /\ last_collided_segment = <<>>
    /\ ~Queried /\ ~Swept =>
         /\ \A player \in Viewers : \A clip \in BOOLEAN :
               VisibleOf(collect_bsp_order(NoRoot, <<>>, player.pos), player, clip) = <<>>
         /\ \A sw \in Sweeps :
               find_first_collision(NoRoot, sw.start, sw.end, sw.radius)
                 = [pt |-> NoPoint, seg |-> <<>>]

\* Both queries were answered, the visibility query with clipping, on the
\* tree built from an empty list.
C24_Witness ==
    /\ EmptyRoot /\ segs = <<>>
    /\ Queried /\ query[1].clip
    /\ Swept /\ sweep[1].start # sweep[1].end

(***************************************************************************)
(* The covered list                                                        *)
(***************************************************************************)
\* The union of a list of intervals as the list of its maximal intervals in
\* ascending order (intervals that overlap or touch are joined, no others).
RECURSIVE UnionLoop(_, _, _)
UnionLoop(list, k, acc) ==
    IF k > Len(list) THEN acc
    ELSE Bind1(acc[Len(acc)], LAMBDA last :
           IF RLe(list[k][1], last[2])
           THEN UnionLoop(list, k + 1,
                          [acc EXCEPT ![Len(acc)] = <<last[1], RMax(last[2], list[k][2])>>])
           ELSE UnionLoop(list, k + 1, Append(acc, list[k])))

UnionOf(list) ==
    IF list = <<>> THEN <<>>
    ELSE Bind1(sorted(list), LAMBDA srt : UnionLoop(srt, 2, <<srt[1]>>))

\* The intervals (ia, ib) of the fragments appended so far.
EmittedIntervals == [i \in 1..Len(emitted) |-> <<emitted[i].ia, emitted[i].ib>>]

SortedByStart(list) ==
    \A i \in 1..(Len(list) - 1) : RLe(list[i][1], list[i + 1][1])

NonOverlapping(list) ==
    \A i, j \in 1..Len(list) :
        i < j => RLe(list[i][2], list[j][1]) \/ RLe(list[j][2], list[i][1])

\* Every angle of the intervals of inner lies in an interval of outer.
CoveredBy(inner, outer) ==
    \A i \in 1..Len(inner) : \E j \in 1..Len(outer) :
        RLe(outer[j][1], inner[i][1]) /\ RLe(inner[i][2], outer[j][2])

\* The angles of the interval c that no interval of the list "union" (maximal
\* intervals, ascending) covers form gaps between two of its intervals, each
\* no longer than the epsilon of _merge_intervals.
GapsWithinEpsilon(c, union) ==
    Bind1(SelectSeq(union, LAMBDA u : RLe(c[1], u[1]) /\ RLe(u[2], c[2])), LAMBDA inside :
      /\ inside # <<>>
      /\ inside[1][1] = c[1]
      /\ inside[Len(inside)][2] = c[2]
      /\ \A i \in 1..(Len(inside) - 1) :
            RLe(RSub(inside[i + 1][1], inside[i][2]), <<MergeEpsilonMicroDeg, 1000000>>))

\* C25 (as stated): after each piece is processed, covered is sorted by
\* start, pairwise non-overlapping, and covers exactly the union of the
\* intervals of the fragments emitted so far.
C25_CoveredIsUnionOfEmitted ==
    /\ SortedByStart(covered)
    /\ NonOverlapping(covered)
    /\ UnionOf(covered) = UnionOf(EmittedIntervals)

\* C25 (amended): after each piece is processed, covered is sorted by start
\* and pairwise non-overlapping, covers every angle of every fragment emitted
\* so far, and covers besides them only gaps of at most epsilon (1e-5 rad)
\* between the intervals of two emitted fragments; and each pass leaves
\* covered every angle that was covered before it.
C25_CoveredWithinEpsilon ==
    /\ [](/\ SortedByStart(covered)
          /\ NonOverlapping(covered)
          /\ CoveredBy(EmittedIntervals, covered)
          /\ \A i \in 1..Len(covered) :
                GapsWithinEpsilon(covered[i], UnionOf(EmittedIntervals)))
    /\ [][CoveredBy(covered, covered')]_vars

\* Two fragments were emitted on both sides of a gap shorter than epsilon and
\* covered holds one interval over both and the gap.
C25_Witness ==
    /\ Len(emitted) >= 2
    /\ Len(covered) = 1
    /\ Len(UnionOf(EmittedIntervals)) = 2

(***************************************************************************)
(* _subtract_intervals                                                     *)
(***************************************************************************)
\* Two intervals share no sub-interval of positive length.
Apart(p, q) == RLe(p[2], q[1]) \/ RLe(q[2], p[1])

\* C26: for every interval (start < end) and every list of covered
\* intervals in any order, _subtract_intervals returns intervals of positive
\* length, in ascending order and pairwise disjoint, each inside the input
\* interval and disjoint from every covered interval, and together with the
\* covered intervals they cover the whole input interval.
C26_SubtractionExact ==
    \A i \in 1..Len(subtracted) :
      \E interval \in {subtracted[i].interval}, cov \in {subtracted[i].covered},
         result \in {subtracted[i].result} :
        /\ \A k \in 1..Len(result) :
              /\ RLt(result[k][1], result[k][2])
              /\ RLe(interval[1], result[k][1]) /\ RLe(result[k][2], interval[2])
              /\ \A c \in 1..Len(cov) : Apart(result[k], cov[c])
        /\ \A k \in 1..(Len(result) - 1) : RLe(result[k][2], result[k + 1][1])
        /\ CoveredBy(<<interval>>, UnionOf(result \o cov))

\* A call with covered intervals out of order and overlapping that left two
\* residual intervals.
C26_Witness ==
    /\ subtracted # <<>>
    /\ Len(subtracted[1].result) = 2
    /\ Len(subtracted[1].covered) = 2
    /\ ~TupleLe(subtracted[1].covered[1], subtracted[1].covered[2])

\* A call whose covered intervals overlap each other and the input interval
\* on one side only.
C26_WitnessOverlap ==
    /\ subtracted # <<>>
    /\ Len(subtracted[1].result) = 1
    /\ Len(subtracted[1].covered) = 2
    /\ ~Apart(subtracted[1].covered[1], subtracted[1].covered[2])
    /\ ~TupleLe(subtracted[1].covered[1], subtracted[1].covered[2])

(***************************************************************************)
(* The query with clipping disabled                                        *)
(***************************************************************************)
\* The segment has a point in the wedge of the viewer's FOV (the directions
\* within half of the facing, whatever the distance): clipping it against
\* the two sides of the FOV triangle that start at the viewer leaves
\* something.
TouchesFovWedge(seg, tri) ==
    Bind1(clip_poly_against_edge(<<seg.a, seg.b>>, tri[1], tri[2]), LAMBDA poly1 :
      /\ poly1 # <<>>
      /\ clip_poly_against_edge(poly1, tri[3], tri[1]) # <<>>)

QueryTriangle ==
    Bind1(query[1].player, LAMBDA player :
      FovTriangle(player, Norm(player.fov_deg + fov_margin_deg, 2), player.fov_length))

\* C27: with clipping disabled, compute_visible_segments returns segments
\* of the tree complete and unmodified, and returns a segment only if it is
\* inside the viewer's FOV: a segment entirely outside the FOV is not
\* returned.
C27_NoClipInsideFov ==
    Queried /\ ~query[1].clip =>
      \A i \in 1..Len(visible) :
        /\ \E k \in 1..Len(ordered) : visible[i] = ordered[k]
        /\ TouchesFovWedge(visible[i], QueryTriangle)

(***************************************************************************)
(* last_collided_segment over a sequence of calls                          *)
(***************************************************************************)
\* C28: after every find_first_collision call of any sequence of calls on
\* one detector, last_collided_segment is none exactly when the call
\* returned none, and otherwise is a segment stored in the tree: a segment
\* recorded by an earlier call is not left after a call without contact.
C28_NoStaleSegment ==
    Swept =>
      /\ (last_collided_segment = <<>>) <=> (contact = NoPoint)
      /\ \A i \in 1..Len(last_collided_segment) :
            \E stored \in {AllCoplanar(tree, <<>>)} :
              \E k \in 1..Len(stored) : last_collided_segment[i] = stored[k]

\* The last call found no contact on a tree on which other calls of Sweeps
\* find one.
C28_Witness ==
    /\ Swept
    /\ contact = NoPoint
    /\ last_collided_segment = <<>>
    /\ \E sw \in Sweeps :
         find_first_collision(tree, sw.start, sw.end, sw.radius).pt # NoPoint

(***************************************************************************)
(* The player and the walls over the frames                                *)
(***************************************************************************)
\* The walls stored in the tree that block movement.
SolidWalls ==
    Bind1(AllCoplanar(tree, <<>>), LAMBDA stored :
      { stored[i] : i \in { k \in 1..Len(stored) : stored[k].blocks_collision } })

\* pos is at least the collision radius away from every solid wall.
ClearOfWalls(pos) ==
    \A w \in SolidWalls :
        RLe(R(PLAYER_COLLISION_RADIUS * PLAYER_COLLISION_RADIUS), SegDistSq(pos, w))

\* The straight path from p to q crosses the wall w: each has its ends
\* strictly on opposite sides of the other.
CrossesWall(p, q, w) ==
    /\ RNegative(RMul(line_side(p, w.a, w.b), line_side(q, w.a, w.b)))
    /\ RNegative(RMul(line_side(w.a, p, q), line_side(w.b, p, q)))

\* C29: if the player starts farther than the collision radius from every
\* solid wall of the tree, then after any sequence of movement frames its
\* centre is never nearer than the radius to a solid wall, and the
\* displacement committed by a frame crosses no solid wall.
C29_NoWallPenetration ==
    pc = "built" /\ (\A w \in SolidWalls :
                       RLt(R(PLAYER_COLLISION_RADIUS * PLAYER_COLLISION_RADIUS),
                           SegDistSq(IF frame = <<>> THEN game_player_pos
                                     ELSE frame[1].start, w))) =>
      /\ ClearOfWalls(game_player_pos)
      /\ \A i \in 1..Len(frame) : \A w \in SolidWalls :
            ~CrossesWall(frame[i].start,
                         IF i < Len(frame) THEN frame[i + 1].start ELSE game_player_pos, w)

(***************************************************************************)
(* Lists handed to the children                                            *)
(***************************************************************************)
\* C30: every list passed to a child recursion is strictly shorter than
\* the list of the activation that passes it, so for an input of n segments
\* with n <= max_depth + 1 the depth guard discards nothing: the returned
\* tree has no partition-less child node, its root holds a partition unless
\* the input is empty, and its coplanar lists hold the whole input.
C30_NoTruncationSmallInputs ==
    /\ [][ Classifies =>
            \A k \in 1..(Len(calls') - Len(calls) + 1) :
                /\ Len(calls'[k].list) < Len(Head(calls).list)
                /\ calls'[k].depth = Head(calls).depth + 1 ]_vars
    /\ [](pc = "built" /\ Len(segs) <= max_depth + 1 =>
            /\ NoTruncation
            /\ segs # <<>> => tree[<<>>].partition # <<>>
            /\ SameTotalLength(AllCoplanar(tree, <<>>), segs))

\* An input of max_depth + 1 segments, one of which was split, built down to
\* depth max_depth.
C30_Witness ==
    /\ pc = "built"
    /\ Len(segs) = max_depth + 1
    /\ Len(AllCoplanar(tree, <<>>)) > Len(segs)
    /\ \E p \in DOMAIN tree : Len(p) = max_depth /\ tree[p].partition # <<>>
====
